---- MODULE Spec2Model ----
(***************************************************************************)
(* Verification model of the octree streaming scheduler, the node geometry  *)
(* assembler, the triangle/plane intersector and the highlight-table        *)
(* locking discipline of the repository.                                    *)
(***************************************************************************)
EXTENDS Integers, Sequences, FiniteSets, TLC

VARIABLES
    \* ---- octree module context (core3d/module/octree/index.ts) ----
    url,              \* OctreeModuleContext.url (0: no scene)
    nstate,           \* OctreeNode.state per node ("absent": node object not created)
    geom,             \* OctreeNode.hasGeometry per node
    inflight,         \* nodes awaiting their own download (OctreeNode.download)
    activeDownloads,  \* Downloader.activeDownloads
    view,             \* per node: projected size (in 1/100) and visibility of the current camera
    stats,            \* sessionStorage items "gpu_bytes" and "primitives" (0 until first written)
    \* ---- node parser (unnamed/part_002: parseNode, getGeometry) ----
    version,          \* parseNode argument: version string of the scene
    subMesh,          \* schema.subMesh records of the buffer, in file order
    vertexIndex,      \* schema.vertexIndex is present
    enableOutlines,   \* parseNode argument
    parsed,           \* what parseNode returned ("pending" before the call)
    \* ---- triangle/plane intersection (core3d/modules/octree/outlines.ts) ----
    triangles,        \* plane space z of the three vertices of each triangle of idx
    triIndex,         \* loop position of intersectTriangles (triangles done)
    emitted,          \* n: number of emit() calls so far
    perTriangle,      \* emit() calls made for each triangle done
    assertHolds,      \* every console.assert(n % 2 == 0) evaluated so far held
    returned,         \* return value of intersectTriangles (-1 before return)
    \* ---- highlight table shared by decoders and the main thread ----
    hlVersion,        \* number of mutations applied to highlights.indices
    mutexOwner,       \* holder of highlights.mutex ("free" when unlocked)
    decPc,            \* per decoder: position inside parseNode
    decFilter,        \* per decoder: applyFilter of the running parseNode
    decSeen,          \* per decoder: table versions read during the running parseNode
    \* ---- OutlineRenderer line-vertex cache (core3d/modules/octree/outlines.ts) ----
    nodeLoads,        \* per node: number of geometry loads so far (names the geometry it holds)
    nodeHasGeometry,  \* per node: the node currently holds geometry
    nodeLinesCache,   \* OutlineRenderer.nodeLinesCache: load the cached line vertices were cut from (0: no entry)
    renderNodes,      \* argument of the last OutlineRenderer.intersectTriangles call
    yielded,          \* buffers the last call yielded: <<node, childIndex, load>>
    \* ---- LoaderHandler arena pool (unnamed/part_001) ----
    wasm,             \* LoaderHandler.wasm is set
    freeArenas,       \* LoaderHandler.freeArenas (arenas by number, last is popped first)
    arenasInUse,      \* LoaderHandler.arenasInUse per node id (0: no entry)
    arenaCount,       \* arenas constructed so far
    arenaData,        \* arenas holding decode output (not reset)
    decodes,          \* parseBuffer calls so far
    \* ---- LoaderHandler downloads and the main thread behind it (unnamed/part_001) ----
    downloads,        \* LoaderHandler.downloads per node id: handle of the download (0: no entry)
    requests,         \* downloads not settled yet, each with its load call waiting on download.result
    handles,          \* load and parse messages received so far
    outbox,           \* messages sent to the main thread, not yet received there
    abortAllWaiting,  \* abortAll waits on downloader.complete()
    assertEmpty,      \* every console.assert(downloads.size == 0) evaluated so far held
    mainRequest,      \* per node: request the main thread awaits (0: none)
    nodeGeometry,     \* per node: request whose geometry the node holds (0: none)
    \* ---- vertex layout (unnamed/part_002: computeVertexOffsets) ----
    attribs,          \* argument of computeVertexOffsets: attribute names in declaration order
    layoutDeviations, \* argument of computeVertexOffsets: number of deviation components
    offsets,          \* what computeVertexOffsets returned (<<>> before the call)
    \* ---- outline line buffer of one child (outlines.ts: NodeIntersectionBuilder) ----
    builderWasm,      \* createNodeLineVertices was given a wasm instance and an arena
    builderOffset,    \* NodeIntersectionBuilder.offset
    bufferStored,     \* number of leading floats of NodeIntersectionBuilder.buffer written so far
    rangesDone,       \* draw ranges of the child intersected so far
    lineVertices,     \* length of the cached line vertices of the child (-1 before vertices())
    \* ---- index buffer of one mesh (part_002: getGeometry, outlines.ts: getMeshBuffers) ----
    meshVertices,     \* numVertices of the mesh
    writtenWidth,     \* bytes per index of the buffer getGeometry made (0 before)
    estimatedWidth,   \* idxStride of aggregateSubMeshProjections (0 before)
    readWidth,        \* bytes per index of the buffer getMeshBuffers reads into (0 before)
    \* ---- index views of the outline intersector (outlines.ts: createNodeLineVertices) ----
    lineViews,        \* per mesh and draw range of the parsed node: the index views (<<>> before the call)
    \* ---- storage of cached line vertices (outlines.ts: NodeIntersectionBuilder.vertices) ----
    arenaFloats,      \* what the arena memory handed out by allocate_f32 holds: the computation that wrote it last (0: none)
    linesCache,       \* per node: the cached line vertices, where they are stored and what was put there (<<>>: no entry)
    linesComputed,    \* per node: the computation whose lines the cache entry was made from (0: none)
    computations,     \* calls of createNodeLineVertices so far
    cameraFixed,      \* the camera has come to rest: state.camera no longer changes between frames
    abortController,  \* BackgroundModule.abortController: the call whose controller it holds (0: undefined)
    textureParams,    \* BackgroundModule.textureParams: the call whose textures it holds (0: null)
    textureCalls,     \* per downloadTextures call: "none", "fetching", "aborted" (signal aborted, not yet settled), "loaded", "failed"
    callsStarted      \* downloadTextures calls so far; a call is named by its number

schedVars == <<url, nstate, geom, inflight, activeDownloads, view, stats>>
parseVars == <<version, subMesh, vertexIndex, enableOutlines, parsed>>
triVars == <<triangles, triIndex, emitted, perTriangle, assertHolds, returned>>
hlVars == <<hlVersion, mutexOwner, decPc, decFilter, decSeen>>
olVars == <<nodeLoads, nodeHasGeometry, nodeLinesCache, renderNodes, yielded>>
arVars == <<wasm, freeArenas, arenasInUse, arenaCount, arenaData, decodes>>
ldVars == <<downloads, requests, handles, outbox, abortAllWaiting, assertEmpty,
           mainRequest, nodeGeometry>>
vlVars == <<attribs, layoutDeviations, offsets>>
lbVars == <<builderWasm, builderOffset, bufferStored, rangesDone, lineVertices>>
iwVars == <<meshVertices, writtenWidth, estimatedWidth, readWidth>>
lvVars == <<lineViews>>
lcVars == <<arenaFloats, linesCache, linesComputed, computations>>
cmVars == <<cameraFixed>>
bgVars == <<abortController, textureParams, textureCalls, callsStarted>>
extVars == <<olVars, arVars, ldVars, vlVars, lbVars, iwVars, lvVars, lcVars, cmVars, bgVars>>
vars == <<schedVars, parseVars, triVars, hlVars, extVars>>

(***************************************************************************)
(* Program constants of OctreeModuleContext.update                          *)
(***************************************************************************)
maxGPUBytes == 1000000000
maxPrimitives == 2000000
maxDownloads == 8
projectedSizeSplitThreshold == 1

\* Bound of the model: scene changes are not taken once this many fetches are unsettled.
DownloadCap == 9

(***************************************************************************)
(* Scenes: the static hierarchy and the per node data (NodeData)            *)
(***************************************************************************)
NoScene == 0
SceneUrls == {1, 2}

\* a scene of cheap nodes, used where download slots rather than budgets decide
CheapScene == 3
NodeIds == 1..4
RootNode == 1

\* children of a node, in childInfos order
SceneChildren(u, n) ==
    IF u = 1 THEN (IF n = 1 THEN <<2>> ELSE IF n = 2 THEN <<3>> ELSE <<>>)
    ELSE IF u = 2 THEN (IF n = 1 THEN <<2, 3, 4>> ELSE <<>>)
    ELSE IF u = CheapScene THEN (IF n = 1 THEN <<2, 3>> ELSE <<>>)
    ELSE <<>>

\* projected primitive count and gpu byte cost of a node (aggregateSubMeshProjections)
ScenePrimitives(u, n) ==
    IF u = 1 THEN (IF n = 1 THEN 800000 ELSE IF n = 2 THEN 1200000 ELSE 0)
    ELSE IF u = CheapScene THEN 100000
    ELSE (IF n = 1 THEN 0 ELSE 800000)

SceneGpuBytes(u, n) ==
    IF u = 1 THEN (IF n = 1 THEN 300000000 ELSE IF n = 2 THEN 600000000 ELSE 500000000)
    ELSE IF u = CheapScene THEN 100000000
    ELSE (IF n = 1 THEN 100000000 ELSE 200000000)

\* primitives of the meshes of the parent that lie in the octant of child n
SceneParentPartition(u, n) ==
    IF n = 1 THEN 0
    ELSE IF u = 1 THEN (IF n = 2 THEN 400000 ELSE 0)
    ELSE IF u = CheapScene THEN 50000
    ELSE 0

\* a variant in which parentPrimitiveCounts holds the count of the whole parent
MutParentPrimitivesFilled(u, n) == IF u = 2 /\ n # 1 THEN 1000000 ELSE 0

\* getChildren: parentPrimitiveCounts is never filled, so parentPrimitives is undefined
parentPrimitives(u, n) == 0

primitivesDelta(u, n) == ScenePrimitives(u, n) - parentPrimitives(u, n)

gpuBytesOf(u, n) == SceneGpuBytes(u, n)

NodeStates == {"absent", "unloaded", "collapsed", "requestDownload", "downloading", "loaded"}

\* what a camera can make of one node: projected size in hundredths, and frustum visibility
NodeViews == {
    [size |-> 50, vis |-> "none"],
    [size |-> 99, vis |-> "partial"],
    [size |-> 150, vis |-> "partial"],
    [size |-> 200, vis |-> "full"] }

DefaultView == [size |-> 50, vis |-> "none"]

\* the views the cameras of the model produce for a node of a scene
SceneViews(u, n) ==
    IF u = 1 THEN (IF n = 1 THEN {v \in NodeViews : v.size \in {50, 200}}
                   ELSE IF n = 2 THEN {v \in NodeViews : v.size \in {50, 99, 200}}
                   ELSE {v \in NodeViews : v.size \in {50, 150}})
    ELSE IF u = 2 THEN (IF n = 1 THEN {v \in NodeViews : v.size = 200}
                        ELSE {v \in NodeViews : v.size \in {50, 200}})
    ELSE IF u = CheapScene THEN (IF n = 1 THEN {v \in NodeViews : v.size = 200}
                                 ELSE IF n = 2 THEN {v \in NodeViews : v.size \in {50, 150}}
                                 ELSE {v \in NodeViews : v.size \in {50, 200}})
    ELSE {}

(***************************************************************************)
(* OctreeNode (node.ts) operations used by the scheduler                    *)
(***************************************************************************)
\* node.shouldSplit(threshold): threshold given in hundredths
shouldSplit(vw, n, threshold100) == vw[n].size > threshold100

\* node.renderedPrimitives of a node that holds geometry
renderedPrimitives(u, n) == ScenePrimitives(u, n)

\* node.dispose(): release geometry, state becomes collapsed; children are left
\* untouched; a fetch in flight stays counted by the downloader until it settles
dispose(ns, n) ==
    [ns EXCEPT !.st[n] = "collapsed", !.geom[n] = FALSE, !.infl = @ \ {n}]

\* node.downloadGeometry(): state becomes downloading and a fetch is started
downloadGeometry(ns, n) ==
    [ns EXCEPT !.st[n] = "downloading", !.infl = @ \cup {n}, !.active = @ + 1]

(***************************************************************************)
(* iterateNodes: pre-order traversal of the existing nodes                  *)
(***************************************************************************)
RECURSIVE iterateNodes(_, _, _)
RECURSIVE iterateChildren(_, _, _, _)
iterateChildren(st, u, kids, i) ==
    IF i > Len(kids) THEN <<>>
    ELSE iterateNodes(st, u, kids[i]) \o iterateChildren(st, u, kids, i + 1)

iterateNodes(st, u, n) ==
    IF u = NoScene \/ st[n] = "absent" THEN <<>>
    ELSE <<n>> \o iterateChildren(st, u, SceneChildren(u, n), 1)

\* nodes.sort((a, b) => b.projectedSize - a.projectedSize): stable, descending
RECURSIVE insertDesc(_, _, _)
insertDesc(vw, sorted, n) ==
    IF sorted = <<>> THEN <<n>>
    ELSE IF vw[Head(sorted)].size >= vw[n].size
         THEN <<Head(sorted)>> \o insertDesc(vw, Tail(sorted), n)
         ELSE <<n>> \o sorted

RECURSIVE sortNodes(_, _, _)
sortNodes(vw, nodes, i) ==
    IF i = 0 THEN <<>>
    ELSE insertDesc(vw, sortNodes(vw, nodes, i - 1), nodes[i])

\* a variant that keeps the nodes in traversal order
MutNoSort(vw, nodes) == nodes

sortByProjectedSize(vw, nodes) == sortNodes(vw, nodes, Len(nodes))

(***************************************************************************)
(* OctreeModuleContext.update                                               *)
(***************************************************************************)
\* lines 144-164: scene change
sceneChange(ns, u, rootView) ==
    IF u = ns.url THEN ns
    ELSE IF u # NoScene
    THEN LET fresh == [ns EXCEPT
                 !.url = u,
                 !.st = [n \in NodeIds |-> IF n = RootNode THEN "unloaded" ELSE "absent"],
                 !.geom = [n \in NodeIds |-> FALSE],
                 !.infl = {},
                 !.vw = [n \in NodeIds |-> IF n = RootNode THEN rootView ELSE DefaultView]]
         IN downloadGeometry(fresh, RootNode)
    ELSE [ns EXCEPT
             !.url = u,
             !.st = [n \in NodeIds |-> "absent"],
             !.geom = [n \in NodeIds |-> FALSE],
             !.infl = {},
             !.vw = [n \in NodeIds |-> DefaultView]]

\* lines 208-214: collapse one node
MutCollapseKeepsGeometry(ns, n) ==
    IF ~shouldSplit(ns.vw, n, projectedSizeSplitThreshold * 98)
    THEN (IF ns.st[n] # "collapsed" THEN [ns EXCEPT !.st[n] = "collapsed", !.infl = @ \ {n}] ELSE ns)
    ELSE ns

MutCollapseNoSlack(ns, n) ==
    IF ~shouldSplit(ns.vw, n, projectedSizeSplitThreshold * 100)
    THEN (IF ns.st[n] # "collapsed" THEN dispose(ns, n) ELSE ns)
    ELSE ns

collapseNode(ns, n) ==
    IF ~shouldSplit(ns.vw, n, projectedSizeSplitThreshold * 98)
    THEN (IF ns.st[n] # "collapsed" THEN dispose(ns, n) ELSE ns)
    ELSE ns

RECURSIVE collapseNodes(_, _, _)
collapseNodes(ns, nodes, i) ==
    IF i > Len(nodes) THEN ns
    ELSE collapseNodes(collapseNode(ns, nodes[i]), nodes, i + 1)

\* lines 222-232: the budget already committed
RECURSIVE sumBudget(_, _, _, _)
sumBudget(ns, nodes, i, acc) ==
    IF i > Len(nodes) THEN acc
    ELSE LET n == nodes[i]
             a1 == IF ns.geom[n]
                   THEN [gpuBytes |-> acc.gpuBytes + gpuBytesOf(ns.url, n),
                         primitives |-> acc.primitives + renderedPrimitives(ns.url, n)]
                   ELSE acc
             a2 == IF ns.st[n] = "requestDownload"
                   THEN [gpuBytes |-> a1.gpuBytes + gpuBytesOf(ns.url, n),
                         primitives |-> a1.primitives + primitivesDelta(ns.url, n)]
                   ELSE a1
         IN sumBudget(ns, nodes, i + 1, a2)

\* lines 236-244: admission of one node; acc carries the running totals
MutAdmitNoAccumulate(ns, acc, n) ==
    IF shouldSplit(ns.vw, n, projectedSizeSplitThreshold * 100)
       /\ ns.st[n] = "collapsed"
       /\ acc.primitives + primitivesDelta(ns.url, n) <= maxPrimitives
       /\ acc.gpuBytes + gpuBytesOf(ns.url, n) <= maxGPUBytes
    THEN [ns |-> [ns EXCEPT !.st[n] = "requestDownload"], acc |-> acc]
    ELSE [ns |-> ns, acc |-> acc]

\* a variant that evicts a smaller loaded node when the budget refuses a node
MutAdmitEvicting(ns, acc, n) ==
    IF shouldSplit(ns.vw, n, projectedSizeSplitThreshold * 100) /\ ns.st[n] = "collapsed"
    THEN IF acc.primitives + primitivesDelta(ns.url, n) <= maxPrimitives
            /\ acc.gpuBytes + gpuBytesOf(ns.url, n) <= maxGPUBytes
         THEN [ns |-> [ns EXCEPT !.st[n] = "requestDownload"],
               acc |-> [gpuBytes |-> acc.gpuBytes + gpuBytesOf(ns.url, n),
                        primitives |-> acc.primitives + primitivesDelta(ns.url, n)]]
         ELSE LET victims == { m \in NodeIds : ns.geom[m] /\ ns.vw[m].size < ns.vw[n].size }
              IN  IF victims = {} THEN [ns |-> ns, acc |-> acc]
                  ELSE [ns |-> [dispose(ns, CHOOSE m \in victims : TRUE)
                                  EXCEPT !.st[n] = "requestDownload"],
                        acc |-> acc]
    ELSE [ns |-> ns, acc |-> acc]

admitNode(ns, acc, n) ==
    IF shouldSplit(ns.vw, n, projectedSizeSplitThreshold * 100)
       /\ ns.st[n] = "collapsed"
       /\ acc.primitives + primitivesDelta(ns.url, n) <= maxPrimitives
       /\ acc.gpuBytes + gpuBytesOf(ns.url, n) <= maxGPUBytes
    THEN [ns |-> [ns EXCEPT !.st[n] = "requestDownload"],
          acc |-> [gpuBytes |-> acc.gpuBytes + gpuBytesOf(ns.url, n),
                   primitives |-> acc.primitives + primitivesDelta(ns.url, n)]]
    ELSE [ns |-> ns, acc |-> acc]

RECURSIVE admitNodes(_, _, _, _)
admitNodes(ns, acc, nodes, i) ==
    IF i > Len(nodes) THEN [ns |-> ns, acc |-> acc]
    ELSE LET r == admitNode(ns, acc, nodes[i])
         IN admitNodes(r.ns, r.acc, nodes, i + 1)

\* a variant that stops at the first node it does not start
RECURSIVE MutDrainStopsAtFirstSkipped(_, _, _, _)
MutDrainStopsAtFirstSkipped(ns, availableDownloads, nodes, i) ==
    IF i > Len(nodes) THEN ns
    ELSE IF availableDownloads > 0 /\ ns.st[nodes[i]] = "requestDownload"
         THEN MutDrainStopsAtFirstSkipped(downloadGeometry(ns, nodes[i]),
                                          availableDownloads - 1, nodes, i + 1)
         ELSE ns

\* lines 249-257: start downloads
RECURSIVE drainNodes(_, _, _, _)
drainNodes(ns, availableDownloads, nodes, i) ==
    IF i > Len(nodes) THEN ns
    ELSE IF availableDownloads > 0 /\ ns.st[nodes[i]] = "requestDownload"
         THEN drainNodes(downloadGeometry(ns, nodes[i]), availableDownloads - 1, nodes, i + 1)
         ELSE drainNodes(ns, availableDownloads, nodes, i + 1)

\* lines 202-258: the pass over the tree
schedulerPass(ns) ==
    IF ns.url = NoScene THEN ns
    ELSE LET pre == iterateNodes(ns.st, ns.url, RootNode)
             c == collapseNodes(ns, pre, 1)
             nodes == sortByProjectedSize(c.vw, iterateNodes(c.st, c.url, RootNode))
             acc == sumBudget(c, nodes, 1, [gpuBytes |-> 0, primitives |-> 0])
             a == admitNodes(c, acc, nodes, 1)
             s == [a.ns EXCEPT !.stats = a.acc]
         IN drainNodes(s, maxDownloads - s.active, nodes, 1)

Bundle == [url |-> url, st |-> nstate, geom |-> geom, infl |-> inflight,
           active |-> activeDownloads, vw |-> view, stats |-> stats]

updateResult(u, rootView) == schedulerPass(sceneChange(Bundle, u, rootView))

\* update(state): u is state.scene's url, rootView what the camera makes of a new root
Update(u, rootView) ==
    /\ u # url => activeDownloads < DownloadCap
    /\ rootView \in (IF u # url /\ u # NoScene THEN SceneViews(u, RootNode) ELSE {DefaultView})
    /\ LET r == updateResult(u, rootView)
       IN /\ url' = r.url
          /\ nstate' = r.st
          /\ geom' = r.geom
          /\ inflight' = r.infl
          /\ activeDownloads' = r.active
          /\ view' = r.vw
          /\ stats' = r.stats
    /\ UNCHANGED <<parseVars, triVars, hlVars, extVars>>

\* the camera moves: one node's projected size and visibility change
SetView(n, v) ==
    /\ url # NoScene
    /\ nstate[n] # "absent"
    /\ v \in SceneViews(url, n)
    /\ view[n] # v
    /\ view' = [view EXCEPT ![n] = v]
    /\ UNCHANGED <<url, nstate, geom, inflight, activeDownloads, stats>>
    /\ UNCHANGED <<parseVars, triVars, hlVars, extVars>>

\* a node's download and decode complete: geometry is published, children are created
DownloadReady(n) ==
    /\ n \in inflight
    /\ nstate[n] = "downloading"
    /\ nstate' = [m \in NodeIds |->
                    IF m = n THEN "loaded"
                    ELSE IF nstate[m] = "absent"
                            /\ \E i \in 1..Len(SceneChildren(url, n)) : SceneChildren(url, n)[i] = m
                         THEN "unloaded"
                         ELSE nstate[m]]
    /\ geom' = [geom EXCEPT ![n] = TRUE]
    /\ inflight' = inflight \ {n}
    /\ activeDownloads' = activeDownloads - 1
    /\ UNCHANGED <<url, view, stats>>
    /\ UNCHANGED <<parseVars, triVars, hlVars, extVars>>

\* a node's download fails or is aborted: the node returns to unloaded
DownloadFailed(n) ==
    /\ n \in inflight
    /\ nstate[n] = "downloading"
    /\ nstate' = [nstate EXCEPT ![n] = "unloaded"]
    /\ inflight' = inflight \ {n}
    /\ activeDownloads' = activeDownloads - 1
    /\ UNCHANGED <<url, geom, view, stats>>
    /\ UNCHANGED <<parseVars, triVars, hlVars, extVars>>

\* a fetch whose node was disposed or replaced settles: its result is discarded
SettleStale ==
    /\ activeDownloads > Cardinality(inflight)
    /\ activeDownloads' = activeDownloads - 1
    /\ UNCHANGED <<url, nstate, geom, inflight, view, stats>>
    /\ UNCHANGED <<parseVars, triVars, hlVars, extVars>>

SchedulerIdle ==
    /\ url = NoScene
    /\ nstate = [n \in NodeIds |-> "absent"]
    /\ geom = [n \in NodeIds |-> FALSE]
    /\ inflight = {}
    /\ activeDownloads = 0
    /\ view = [n \in NodeIds |-> DefaultView]
    /\ stats = [gpuBytes |-> 0, primitives |-> 0]

(***************************************************************************)
(* Node parser: parseNode, getSubMeshes, getGeometry (unnamed/part_002)     *)
(***************************************************************************)
CurrentVersion == "2.1"
PreviousVersion == "2.0"
Versions == {CurrentVersion, PreviousVersion, "1.9"}

isSupportedVersion(v) == v = CurrentVersion \/ v = PreviousVersion

\* Bounds of the parser inputs
MaxSubMeshes == 3
ObjectIds == {5, 7}
ChildIndices == {0, 1}
TriangleCounts == {1, 2}

\* materialIndex of a submesh without a material (0xff)
NoMaterial == 255

\* the fields of schema.subMesh that parsing reads: numTris vertex triples,
\* indexed when the row has an index range of its own
SubMeshFields(ids, children, counts, indexings, primitives, materials, textureCounts, types) ==
    [objectId : ids, childIndex : children, numTris : counts,
     indexed : indexings, primitiveType : primitives,
     materialIndex : materials, textures : textureCounts,
     materialType : types, attributes : {0}, deviations : {0}]

\* one schema.subMesh row of primitive type triangles; all rows share material
\* type, attributes and deviations, so the group key varies in childIndex only
SubMeshRecords ==
    SubMeshFields(ObjectIds, ChildIndices, TriangleCounts, {TRUE}, {"triangles"},
                  {0}, {0}, {"opaque"})

SubMeshInputs == UNION {[1..k -> SubMeshRecords] : k \in 0..MaxSubMeshes}

\* rows of one triangle of one object whose child index, primitive type and
\* indexing vary
GeometryRecords ==
    SubMeshFields({5}, ChildIndices, {1}, BOOLEAN, {"triangles", "lines"},
                  {0}, {0}, {"opaque"})

GeometryInputs == UNION {[1..k -> GeometryRecords] : k \in 0..MaxSubMeshes}

MaxMaterialRows == 2

\* rows in one child whose material index, texture count, stored material type
\* and primitive type vary
MaterialRecords ==
    SubMeshFields({5}, {0}, {1}, {TRUE}, {"triangles", "triangle_strip", "lines"},
                  {0, NoMaterial}, {0, 1}, {"opaque", "transparent", "elevation"})

MaterialInputs == UNION {[1..k -> MaterialRecords] : k \in 0..MaxMaterialRows}

\* vertexRange[1] - vertexRange[0] and indexRange[1] - indexRange[0] of a row:
\* three vertices per triangle, three indices per triangle when the buffer is indexed
vtxCnt(sm) == 3 * sm.numTris
idxCnt(sm, vi) == IF vi /\ sm.indexed THEN 3 * sm.numTris ELSE 0

\* a variant that yields the stored material type
MutStoredMaterialType(sm) == sm.materialType

\* lines 339-343: the material type getSubMeshes yields for a row
yieldedMaterialType(sm) ==
    IF /\ sm.materialIndex = NoMaterial
       /\ sm.textures = 0
       /\ sm.primitiveType \in {"triangle_strip", "triangles"}
    THEN "elevation"
    ELSE sm.materialType

\* line 351: the record getSubMeshes yields for a row
yieldSubMesh(sm) == [sm EXCEPT !.materialType = yieldedMaterialType(sm)]

\* getSubMeshes: rows whose object passes the predicate, in file order
getSubMeshes(rows, hidden) ==
    LET kept == SelectSeq(rows, LAMBDA r : r.objectId \notin hidden)
    IN [i \in 1..Len(kept) |-> yieldSubMesh(kept[i])]

\* line 400: the key of the group a yielded record goes to
groupKey(sm) == <<sm.materialType, sm.primitiveType, sm.attributes, sm.deviations, sm.childIndex>>

\* lines 398-407: group keys in Map insertion order
RECURSIVE groupKeys(_, _)
groupKeys(rows, i) ==
    IF i = 0 THEN <<>>
    ELSE LET ks == groupKeys(rows, i - 1)
             k == groupKey(rows[i])
         IN IF \E j \in 1..Len(ks) : ks[j] = k THEN ks ELSE Append(ks, k)

groupMeshes(rows, k) == SelectSeq(rows, LAMBDA r : groupKey(r) = k)

\* line 427: the distinct child indices of a group, sorted
RECURSIVE sortedIndices(_)
sortedIndices(S) ==
    IF S = {} THEN <<>>
    ELSE LET least == CHOOSE c \in S : \A d \in S : c <= d
         IN <<least>> \o sortedIndices(S \ {least})

childIndices(meshes) == sortedIndices({meshes[i].childIndex : i \in 1..Len(meshes)})

\* lines 429-441: buffer sizes of a group
RECURSIVE countVertices(_, _)
countVertices(meshes, i) ==
    IF i = 0 THEN 0 ELSE countVertices(meshes, i - 1) + vtxCnt(meshes[i])

RECURSIVE countIndices(_, _, _)
countIndices(meshes, vi, i) ==
    IF i = 0 THEN 0 ELSE countIndices(meshes, vi, i - 1) + idxCnt(meshes[i], vi)

RECURSIVE countTriangles(_, _, _)
countTriangles(meshes, vi, i) ==
    IF i = 0 THEN 0
    ELSE countTriangles(meshes, vi, i - 1)
         + (IF meshes[i].primitiveType = "triangles"
            THEN (IF idxCnt(meshes[i], vi) > 0 THEN idxCnt(meshes[i], vi) ELSE vtxCnt(meshes[i])) \div 3
            ELSE 0)

\* lines 526-585: one submesh of the group; st carries the offsets and the ranges
appendObjectRange(st, sm, vi, triBuffers) ==
    LET numTrianglesInSubMesh ==
            IF triBuffers THEN (IF vi THEN idxCnt(sm, vi) \div 3 ELSE vtxCnt(sm) \div 3) ELSE 0
        endVertex == st.vertexOffset + vtxCnt(sm)
        endTriangle == st.triangleOffset + idxCnt(sm, vi) \div 3
        prev == Len(st.objectRanges)
    IN [st EXCEPT
          !.objectRanges =
              IF prev >= 1 /\ st.objectRanges[prev].objectId = sm.objectId
              THEN [st.objectRanges EXCEPT ![prev].endVertex = endVertex,
                                           ![prev].endTriangle = endTriangle]
              ELSE Append(st.objectRanges,
                          [objectId |-> sm.objectId,
                           beginVertex |-> st.vertexOffset, endVertex |-> endVertex,
                           beginTriangle |-> st.triangleOffset, endTriangle |-> endTriangle]),
          !.indexOffset = st.indexOffset + idxCnt(sm, vi),
          !.triangleOffset = st.triangleOffset + numTrianglesInSubMesh,
          !.vertexOffset = st.vertexOffset + vtxCnt(sm)]

\* lines 498-586: the submeshes of one child index, from the offsets in st
RECURSIVE buildObjectRanges(_, _, _, _, _)
buildObjectRanges(st, meshes, vi, triBuffers, i) ==
    IF i = 0 THEN st
    ELSE appendObjectRange(buildObjectRanges(st, meshes, vi, triBuffers, i - 1), meshes[i], vi, triBuffers)

\* lines 491-592: one draw range per child index of the group
RECURSIVE buildDrawRanges(_, _, _, _, _)
buildDrawRanges(groupRows, vi, triBuffers, children, i) ==
    IF i = 0
    THEN [objectRanges |-> <<>>, drawRanges |-> <<>>,
          indexOffset |-> 0, triangleOffset |-> 0, vertexOffset |-> 0]
    ELSE LET st == buildDrawRanges(groupRows, vi, triBuffers, children, i - 1)
             meshes == SelectSeq(groupRows, LAMBDA sm : sm.childIndex = children[i])
             drawRangeBegin == IF vi THEN st.indexOffset ELSE st.vertexOffset
             after == buildObjectRanges(st, meshes, vi, triBuffers, Len(meshes))
             drawRangeEnd == IF vi THEN after.indexOffset ELSE after.vertexOffset
         IN [after EXCEPT !.drawRanges =
                Append(st.drawRanges,
                       [childIndex |-> children[i], first |-> drawRangeBegin,
                        count |-> drawRangeEnd - drawRangeBegin])]

\* line 628: objectRanges.sort((a, b) => (a.objectId - b.objectId)), a stable sort
RECURSIVE insertRange(_, _)
insertRange(sorted, r) ==
    IF sorted = <<>> THEN <<r>>
    ELSE IF Head(sorted).objectId <= r.objectId
         THEN <<Head(sorted)>> \o insertRange(Tail(sorted), r)
         ELSE <<r>> \o sorted

RECURSIVE sortObjectRanges(_, _)
sortObjectRanges(ranges, i) ==
    IF i = 0 THEN <<>> ELSE insertRange(sortObjectRanges(ranges, i - 1), ranges[i])

\* line 446: the per-triangle buffers are allocated
hasTriangleBuffers(outlines, primitiveType) == outlines /\ primitiveType = "triangles"

\* lines 413-642: the drawable mesh of one group
createSubMesh(meshes, vi, outlines) ==
    LET triBuffers == hasTriangleBuffers(outlines, meshes[1].primitiveType)
        children == childIndices(meshes)
        built == buildDrawRanges(meshes, vi, triBuffers, children, Len(children))
        numTriangles == countTriangles(meshes, vi, Len(meshes))
    IN [materialType |-> meshes[1].materialType,
        primitiveType |-> meshes[1].primitiveType,
        attributes |-> meshes[1].attributes,
        deviations |-> meshes[1].deviations,
        numVertices |-> countVertices(meshes, Len(meshes)),
        numIndices |-> countIndices(meshes, vi, Len(meshes)),
        numTriangles |-> numTriangles,
        objectRanges |-> sortObjectRanges(built.objectRanges, Len(built.objectRanges)),
        drawRanges |-> built.drawRanges,
        hasTrianglePosBuffer |-> triBuffers,
        triangleBufferLength |-> IF triBuffers THEN numTriangles ELSE 0,
        indexOffset |-> built.indexOffset,
        triangleOffset |-> built.triangleOffset,
        vertexOffset |-> built.vertexOffset]

getGeometry(rows, vi, outlines, hidden) ==
    LET filteredSubMeshes == getSubMeshes(rows, hidden)
        keys == groupKeys(filteredSubMeshes, Len(filteredSubMeshes))
    IN [g \in 1..Len(keys) |-> createSubMesh(groupMeshes(filteredSubMeshes, keys[g]), vi, outlines)]

\* parseNode: console.assert only logs; any version other than the current one is
\* read with the previous schema reader
parseNode(v, rows, vi, outlines) ==
    [assertion |-> isSupportedVersion(v),
     schema |-> IF v = CurrentVersion THEN "Current" ELSE "Previous",
     error |-> "none",
     subMeshes |-> getGeometry(rows, vi, outlines, {})]

ParserIdle ==
    /\ version = CurrentVersion
    /\ subMesh = <<>>
    /\ vertexIndex = FALSE
    /\ enableOutlines = FALSE
    /\ parsed = <<>>

\* the loader worker decodes the buffer it was handed
ParseNode ==
    /\ parsed = <<>>
    /\ parsed' = <<parseNode(version, subMesh, vertexIndex, enableOutlines)>>
    /\ UNCHANGED <<version, subMesh, vertexIndex, enableOutlines>>
    /\ UNCHANGED <<schedVars, triVars, hlVars, extVars>>

(***************************************************************************)
(* Clipping outlines: intersectTriangles, intersectEdge (outlines.ts)       *)
(***************************************************************************)
\* Bounds of the intersector inputs
MaxTriangles == 2
ZValues == {-1, 0, 1}

\* a triangle is given by the plane space z of its three vertices
TriangleInputs == UNION {[1..k -> [1..3 -> ZValues]] : k \in 0..MaxTriangles}

\* intersectEdge: the number of emit() calls it makes for the edge z0 -> z1
MutIntersectEdgeStrict(z0, z1) ==
    IF (z0 < 0 /\ z1 > 0) \/ (z1 < 0 /\ z0 > 0) THEN 1 ELSE 0

intersectEdge(z0, z1) ==
    IF (z0 <= 0 /\ z1 > 0) \/ (z1 <= 0 /\ z0 > 0) THEN 1 ELSE 0

\* lines 388-393: does the triangle intersect the plane?
intersectsPlane(t) ==
    LET gt0 == t[1] > 0  gt1 == t[2] > 0  gt2 == t[3] > 0
        lt0 == t[1] < 0  lt1 == t[2] < 0  lt2 == t[3] < 0
    IN (gt0 \/ gt1 \/ gt2) /\ (lt0 \/ lt1 \/ lt2)

\* lines 393-399: emit() calls made for one triangle
intersectTriangle(t) ==
    IF intersectsPlane(t)
    THEN intersectEdge(t[1], t[2]) + intersectEdge(t[2], t[3]) + intersectEdge(t[3], t[1])
    ELSE 0

IntersectorIdle ==
    /\ triangles = <<>>
    /\ triIndex = 0
    /\ emitted = 0
    /\ perTriangle = <<>>
    /\ assertHolds = TRUE
    /\ returned = -1

\* one iteration of the triangle loop of intersectTriangles
IntersectNext ==
    /\ returned = -1
    /\ triIndex < Len(triangles)
    /\ LET t == triangles[triIndex + 1]
           k == intersectTriangle(t)
       IN /\ emitted' = emitted + k
          /\ perTriangle' = Append(perTriangle, k)
          /\ assertHolds' = (assertHolds /\ (intersectsPlane(t) => (emitted + k) % 2 = 0))
    /\ triIndex' = triIndex + 1
    /\ UNCHANGED <<triangles, returned>>
    /\ UNCHANGED <<schedVars, parseVars, hlVars, extVars>>

\* return n / 2 (n is the number of emitted points)
IntersectReturn ==
    /\ returned = -1
    /\ triIndex = Len(triangles)
    /\ returned' = emitted \div 2
    /\ UNCHANGED <<triangles, triIndex, emitted, perTriangle, assertHolds>>
    /\ UNCHANGED <<schedVars, parseVars, hlVars, extVars>>

(***************************************************************************)
(* Highlight table: reads of one parseNode against writers holding the mutex *)
(***************************************************************************)
Decoders == {"worker1", "worker2"}

\* Bound: number of changes the main thread makes to the highlight table
MaxMutations == 2

HighlightsIdle ==
    /\ hlVersion = 0
    /\ mutexOwner = "free"
    /\ decPc = [d \in Decoders |-> "idle"]
    /\ decFilter = [d \in Decoders |-> FALSE]
    /\ decSeen = [d \in Decoders |-> {}]

\* the predicate of parseNode reads highlights.indices only when applyFilter is set
predicateReads(d) == IF decFilter[d] THEN {hlVersion} ELSE {}

\* parseNode is entered
BeginParse(d, applyFilter) ==
    /\ decPc[d] \in {"idle", "done", "failed"}
    /\ decPc' = [decPc EXCEPT ![d] = "getChildren"]
    /\ decFilter' = [decFilter EXCEPT ![d] = applyFilter]
    /\ decSeen' = [decSeen EXCEPT ![d] = {}]
    /\ UNCHANGED <<hlVersion, mutexOwner>>
    /\ UNCHANGED <<schedVars, parseVars, triVars, extVars>>

\* line 679: getChildren(id, schema, separatePositionBuffer, predicate)
GetChildren(d) ==
    /\ decPc[d] = "getChildren"
    /\ decSeen' = [decSeen EXCEPT ![d] = @ \cup predicateReads(d)]
    /\ decPc' = [decPc EXCEPT ![d] = "getSubMeshes"]
    /\ UNCHANGED <<hlVersion, mutexOwner, decFilter>>
    /\ UNCHANGED <<schedVars, parseVars, triVars, extVars>>

\* line 384: getGeometry collects [...getSubMeshes(schema, predicate)]
GetSubMeshes(d) ==
    /\ decPc[d] = "getSubMeshes"
    /\ decSeen' = [decSeen EXCEPT ![d] = @ \cup predicateReads(d)]
    /\ decPc' = [decPc EXCEPT ![d] = "lockSync"]
    /\ UNCHANGED <<hlVersion, mutexOwner, decFilter>>
    /\ UNCHANGED <<schedVars, parseVars, triVars, extVars>>

\* line 410: highlights.mutex.lockSync() blocks until the mutex is free
LockSync(d) ==
    /\ decPc[d] = "lockSync"
    /\ mutexOwner = "free"
    /\ mutexOwner' = d
    /\ decPc' = [decPc EXCEPT ![d] = "lookup"]
    /\ UNCHANGED <<hlVersion, decFilter, decSeen>>
    /\ UNCHANGED <<schedVars, parseVars, triVars, extVars>>

\* line 569: highlights.indices[objectId] for the submeshes of the node
LookupHighlights(d) ==
    /\ decPc[d] = "lookup"
    /\ decSeen' = [decSeen EXCEPT ![d] = @ \cup {hlVersion}]
    /\ decPc' = [decPc EXCEPT ![d] = "unlock"]
    /\ UNCHANGED <<hlVersion, mutexOwner, decFilter>>
    /\ UNCHANGED <<schedVars, parseVars, triVars, extVars>>

\* lines 413-642: building a mesh throws on malformed data (a vertex attribute
\* the submesh names but the buffer lacks, at line 515); nothing between
\* lockSync and unlock catches, and LoaderHandler.parse reports the error
GeometryThrows(d) ==
    /\ decPc[d] = "lookup"
    /\ decPc' = [decPc EXCEPT ![d] = "failed"]
    /\ UNCHANGED <<hlVersion, mutexOwner, decFilter, decSeen>>
    /\ UNCHANGED <<schedVars, parseVars, triVars, extVars>>

\* line 644: highlights.mutex.unlock(), then parseNode returns
Unlock(d) ==
    /\ decPc[d] = "unlock"
    /\ mutexOwner' = "free"
    /\ decPc' = [decPc EXCEPT ![d] = "done"]
    /\ UNCHANGED <<hlVersion, decFilter, decSeen>>
    /\ UNCHANGED <<schedVars, parseVars, triVars, extVars>>

\* the main thread takes the mutex to change the table
MainLock ==
    /\ mutexOwner = "free"
    /\ hlVersion < MaxMutations
    /\ mutexOwner' = "main"
    /\ UNCHANGED <<hlVersion, decPc, decFilter, decSeen>>
    /\ UNCHANGED <<schedVars, parseVars, triVars, extVars>>

\* the main thread writes the new highlight indices and releases the mutex
MainWriteUnlock ==
    /\ mutexOwner = "main"
    /\ hlVersion' = hlVersion + 1
    /\ mutexOwner' = "free"
    /\ UNCHANGED <<decPc, decFilter, decSeen>>
    /\ UNCHANGED <<schedVars, parseVars, triVars, extVars>>

(***************************************************************************)
(* OutlineRenderer: per node cache of line vertices and mask selection       *)
(***************************************************************************)
OutlineNodes == {1, 2}

\* Bound: number of times one node loads geometry
MaxLoads == 2

\* a call lists each node at most once
MaxRenderNodes == Cardinality(OutlineNodes)

\* child indices of the draw ranges of the meshes of a node (keys of its line clusters)
drawRangeChildren(n) == IF n = 1 THEN {0, 1} ELSE {1}

ChildMasks == 0..3

RenderNodeRecords == [node : OutlineNodes, mask : ChildMasks, intersectsPlane : BOOLEAN]

\* elements of a sequence
Range(seq) == { seq[i] : i \in 1..Len(seq) }

RECURSIVE bitAnd(_, _)
\* a & b on non-negative integers
bitAnd(a, b) ==
    IF a = 0 \/ b = 0 THEN 0
    ELSE (IF a % 2 = 1 /\ b % 2 = 1 THEN 1 ELSE 0) + 2 * bitAnd(a \div 2, b \div 2)

\* a variant that yields the buffer of every child once any child is rendered
MutMaskAnyChild(childIndex, mask) == mask # 0

\* (1 << childIndex) & mask
maskSelects(childIndex, mask) == bitAnd(2 ^ childIndex, mask) # 0

\* createNodeLineVertices: line vertices cut from the geometry the node holds now
createNodeLineVertices(loads, n) == loads[n]

RECURSIVE yieldLineVertices(_, _, _, _, _)
\* the generator body of intersectTriangles over renderNodes[i..]
yieldLineVertices(cache, loads, rns, i, out) ==
    IF i > Len(rns) THEN [cache |-> cache, out |-> out]
    ELSE LET rn == rns[i]
             node == rn.node
         IN  IF rn.intersectsPlane
             THEN LET nodeLineVertices ==
                          IF cache[node] # 0 THEN cache[node]
                          ELSE createNodeLineVertices(loads, node)
                      hits == { <<node, childIndex, nodeLineVertices>> :
                                  childIndex \in { c \in drawRangeChildren(node) :
                                                     maskSelects(c, rn.mask) } }
                  IN  yieldLineVertices([cache EXCEPT ![node] = nodeLineVertices],
                                        loads, rns, i + 1, out \cup hits)
             ELSE yieldLineVertices(cache, loads, rns, i + 1, out)

OutlinesIdle ==
    /\ nodeLoads = [n \in OutlineNodes |-> 0]
    /\ nodeHasGeometry = [n \in OutlineNodes |-> FALSE]
    /\ nodeLinesCache = [n \in OutlineNodes |-> 0]
    /\ renderNodes = <<>>
    /\ yielded = {}

\* a node receives the geometry of a download
LoadGeometry(n) ==
    /\ ~nodeHasGeometry[n]
    /\ nodeLoads[n] < MaxLoads
    /\ nodeLoads' = [nodeLoads EXCEPT ![n] = @ + 1]
    /\ nodeHasGeometry' = [nodeHasGeometry EXCEPT ![n] = TRUE]
    /\ UNCHANGED <<nodeLinesCache, renderNodes, yielded>>
    /\ UNCHANGED <<schedVars, parseVars, triVars, hlVars, arVars, ldVars, vlVars, lbVars, iwVars, lvVars, lcVars, cmVars, bgVars>>

\* node.dispose(): the node object stays in the tree, so its WeakMap entry stays
DisposeNode(n) ==
    /\ nodeHasGeometry[n]
    /\ nodeHasGeometry' = [nodeHasGeometry EXCEPT ![n] = FALSE]
    /\ UNCHANGED <<nodeLoads, nodeLinesCache, renderNodes, yielded>>
    /\ UNCHANGED <<schedVars, parseVars, triVars, hlVars, arVars, ldVars, vlVars, lbVars, iwVars, lvVars, lcVars, cmVars, bgVars>>

\* OutlineRenderer.intersectTriangles(wasm, arena, rns), iterated to its end
IntersectTriangles(rns) ==
    /\ \A i \in 1..Len(rns) : nodeHasGeometry[rns[i].node]
    /\ \A i, j \in 1..Len(rns) : rns[i].node = rns[j].node => i = j
    /\ LET r == yieldLineVertices(nodeLinesCache, nodeLoads, rns, 1, {})
       IN  /\ nodeLinesCache' = r.cache
           /\ yielded' = r.out
    /\ renderNodes' = rns
    /\ UNCHANGED <<nodeLoads, nodeHasGeometry>>
    /\ UNCHANGED <<schedVars, parseVars, triVars, hlVars, arVars, ldVars, vlVars, lbVars, iwVars, lvVars, lcVars, cmVars, bgVars>>

\* a call of intersectTriangles with some list of render nodes
OutlineCall ==
    \E k \in 1..MaxRenderNodes : \E rns \in [1..k -> RenderNodeRecords] : IntersectTriangles(rns)

(***************************************************************************)
(* LoaderHandler: arena pool of the decoder                                  *)
(***************************************************************************)
\* number of arenas init puts in the pool
ArenaPoolSize == 10

\* node ids of the parse, load and free messages
MessageIds == {1, 2}

\* Bound: number of decodes started
MaxDecodes == 12

ArenasIdle ==
    /\ wasm = FALSE
    /\ freeArenas = <<>>
    /\ arenasInUse = [id \in MessageIds |-> 0]
    /\ arenaCount = 0
    /\ arenaData = {}
    /\ decodes = 0

\* init: the wasm instance is there and the pool is filled
InitWasm ==
    /\ ~wasm
    /\ wasm' = TRUE
    /\ freeArenas' = freeArenas \o [i \in 1..ArenaPoolSize |-> arenaCount + i]
    /\ arenaCount' = arenaCount + ArenaPoolSize
    /\ UNCHANGED <<arenasInUse, arenaData, decodes>>
    /\ UNCHANGED <<schedVars, parseVars, triVars, hlVars, olVars, ldVars, vlVars, lbVars, iwVars, lvVars, lcVars, cmVars, bgVars>>

\* freeArenas.pop() ?? new Arena()
borrowArena(free, count) ==
    IF free # <<>>
    THEN [arena |-> free[Len(free)], free |-> SubSeq(free, 1, Len(free) - 1), count |-> count]
    ELSE [arena |-> count + 1, free |-> free, count |-> count + 1]

\* this.send(msg); h names the request the message answers (0: none)
send(box, kind, id, h) == Append(box, [kind |-> kind, id |-> id, h |-> h])

\* parseBuffer for node id on behalf of request h; corrupt: parseNode throws on
\* the buffer. threw: the exception leaves parseBuffer
parseBuffer(id, h, corrupt, box) ==
    IF wasm
    THEN LET b == borrowArena(freeArenas, arenaCount)
         IN  [threw |-> corrupt,
              box |-> IF corrupt THEN box ELSE send(box, "ready", id, h),
              free |-> b.free,
              count |-> b.count,
              data |-> arenaData \cup {b.arena},
              inUse |-> IF corrupt THEN arenasInUse ELSE [arenasInUse EXCEPT ![id] = b.arena]]
    ELSE [threw |-> FALSE, box |-> box, free |-> freeArenas, count |-> arenaCount,
          data |-> arenaData, inUse |-> arenasInUse]

\* the arena pool after a call of parseBuffer with result p
arenasAfter(p) ==
    /\ freeArenas' = p.free
    /\ arenaCount' = p.count
    /\ arenaData' = p.data
    /\ arenasInUse' = p.inUse
    /\ decodes' = decodes + 1
    /\ UNCHANGED wasm

\* a decode seen from the arena pool; its messages are followed by Parse and Settle
ParseBuffer(id, corrupt) ==
    /\ decodes < MaxDecodes
    /\ arenasAfter(parseBuffer(id, 0, corrupt, outbox))
    /\ UNCHANGED <<schedVars, parseVars, triVars, hlVars, olVars, ldVars, vlVars, lbVars, iwVars, lvVars, lcVars, cmVars, bgVars>>

\* freeArena for node id
FreeArena(id) ==
    /\ arenasInUse[id] # 0
    /\ arenasInUse' = [arenasInUse EXCEPT ![id] = 0]
    /\ arenaData' = arenaData \ {arenasInUse[id]}
    /\ freeArenas' = Append(freeArenas, arenasInUse[id])
    /\ UNCHANGED <<wasm, arenaCount, decodes>>
    /\ UNCHANGED <<schedVars, parseVars, triVars, hlVars, olVars, ldVars, vlVars, lbVars, iwVars, lvVars, lcVars, cmVars, bgVars>>

(***************************************************************************)
(* LoaderHandler: downloads, aborts and the messages sent to the main thread *)
(***************************************************************************)
\* Bound: number of load and parse messages the main thread sends
MaxRequests == 3

\* Bound: messages sent to the main thread and not yet received by it
MaxOutbox == 2

\* outcomes of a download that was not aborted: the buffer decodes, parseNode
\* throws on it, or the transport fails
Outcomes == {"buffer", "corrupt", "failed"}

LoaderIdle ==
    /\ downloads = [id \in MessageIds |-> 0]
    /\ requests = {}
    /\ handles = 0
    /\ outbox = <<>>
    /\ abortAllWaiting = FALSE
    /\ assertEmpty = TRUE
    /\ mainRequest = [id \in MessageIds |-> 0]
    /\ nodeGeometry = [id \in MessageIds |-> 0]

\* a variant that forgets every download
MutRemoveAll(map, id) == [j \in MessageIds |-> 0]

\* removeNode(id) applied to the downloads map
removeNode(map, id) == [map EXCEPT ![id] = 0]

\* download.abort() on the download with handle h
abortDownload(rs, h) ==
    { IF r.h = h THEN [r EXCEPT !.aborted = TRUE] ELSE r : r \in rs }

\* the part of abortAll after await downloader.complete()
abortAllResume(map, box) ==
    [assert |-> \A id \in MessageIds : map[id] = 0,
     box |-> send(box, "aborted_all", 0, 0)]

\* load message for node id, up to await download.result
Load(id) ==
    /\ mainRequest[id] = 0
    /\ nodeGeometry[id] = 0
    /\ handles < MaxRequests
    /\ handles' = handles + 1
    /\ mainRequest' = [mainRequest EXCEPT ![id] = handles + 1]
    /\ downloads' = [downloads EXCEPT ![id] = handles + 1]
    /\ requests' = requests \cup
                     {[h |-> handles + 1, id |-> id, aborted |-> FALSE, abortAsked |-> FALSE]}
    /\ UNCHANGED <<outbox, abortAllWaiting, assertEmpty, nodeGeometry>>
    /\ UNCHANGED <<schedVars, parseVars, triVars, hlVars, olVars, arVars, vlVars, lbVars, iwVars, lvVars, lcVars, cmVars, bgVars>>

\* parse message for node id: the main thread supplies the buffer
Parse(id, corrupt) ==
    /\ mainRequest[id] = 0
    /\ nodeGeometry[id] = 0
    /\ handles < MaxRequests
    /\ Len(outbox) < MaxOutbox
    /\ handles' = handles + 1
    /\ mainRequest' = [mainRequest EXCEPT ![id] = handles + 1]
    /\ LET p == parseBuffer(id, handles + 1, corrupt, outbox)
       IN  /\ arenasAfter(p)
           /\ IF p.threw
              THEN /\ downloads' = removeNode(downloads, id)
                   /\ outbox' = send(p.box, "error", id, handles + 1)
              ELSE /\ downloads' = downloads
                   /\ outbox' = p.box
    /\ UNCHANGED <<requests, abortAllWaiting, assertEmpty, nodeGeometry>>
    /\ UNCHANGED <<schedVars, parseVars, triVars, hlVars, olVars, vlVars, lbVars, iwVars, lvVars, lcVars, cmVars, bgVars>>

\* the main thread gives up its request of node id; abort message for id
Abort(id) ==
    /\ mainRequest[id] # 0
    /\ mainRequest' = [mainRequest EXCEPT ![id] = 0]
    /\ downloads' = removeNode(downloads, id)
    /\ requests' = { IF r.h = mainRequest[id] THEN [r EXCEPT !.abortAsked = TRUE] ELSE r :
                       r \in abortDownload(requests, downloads[id]) }
    /\ UNCHANGED <<handles, outbox, abortAllWaiting, assertEmpty, nodeGeometry>>
    /\ UNCHANGED <<schedVars, parseVars, triVars, hlVars, olVars, arVars, vlVars, lbVars, iwVars, lvVars, lcVars, cmVars, bgVars>>

\* abort_all message: the main thread drops every node
AbortAll ==
    /\ ~abortAllWaiting
    /\ Len(outbox) < MaxOutbox
    /\ mainRequest' = [id \in MessageIds |-> 0]
    /\ nodeGeometry' = [id \in MessageIds |-> 0]
    /\ requests' = { IF \E id \in MessageIds : downloads[id] = r.h
                     THEN [r EXCEPT !.aborted = TRUE] ELSE r : r \in requests }
    /\ IF requests = {}
       THEN LET a == abortAllResume(downloads, outbox)
            IN  /\ assertEmpty' = (assertEmpty /\ a.assert)
                /\ outbox' = a.box
                /\ abortAllWaiting' = FALSE
       ELSE /\ abortAllWaiting' = TRUE
            /\ UNCHANGED <<assertEmpty, outbox>>
    /\ UNCHANGED <<downloads, handles>>
    /\ UNCHANGED <<schedVars, parseVars, triVars, hlVars, olVars, arVars, vlVars, lbVars, iwVars, lvVars, lcVars, cmVars, bgVars>>

\* a variant that decodes nothing and answers every settled download with ready
MutLoadResumeAlwaysReady(map, box, r, o, p) ==
    [map |-> [map EXCEPT ![r.id] = 0], box |-> send(box, "ready", r.id, r.h)]

\* load after await download.result, for download r settling with outcome o;
\* p is the result of parseBuffer where load calls it
loadResume(map, box, r, o, p) ==
    IF o = "failed"
    THEN [map |-> removeNode(map, r.id), box |-> send(box, "error", r.id, r.h)]
    ELSE LET deleted == [map EXCEPT ![r.id] = 0]
         IN  IF o = "aborted"
             THEN [map |-> deleted, box |-> send(box, "aborted", r.id, r.h)]
             ELSE IF p.threw
             THEN [map |-> removeNode(deleted, r.id), box |-> send(p.box, "error", r.id, r.h)]
             ELSE [map |-> deleted, box |-> p.box]

\* download r settles and load continues; a waiting abortAll continues once
\* no download is left
Settle(r, o) ==
    /\ r \in requests
    /\ o \in (IF r.aborted THEN {"aborted"} ELSE Outcomes)
    /\ Len(outbox) < MaxOutbox
    /\ requests' = requests \ {r}
    /\ LET p == parseBuffer(r.id, r.h, o = "corrupt", outbox)
           l == loadResume(downloads, outbox, r, o, p)
       IN  /\ IF o \in {"buffer", "corrupt"} THEN arenasAfter(p) ELSE UNCHANGED arVars
           /\ downloads' = l.map
           /\ IF abortAllWaiting /\ requests' = {}
              THEN LET a == abortAllResume(l.map, l.box)
                   IN  /\ assertEmpty' = (assertEmpty /\ a.assert)
                       /\ outbox' = a.box
                       /\ abortAllWaiting' = FALSE
              ELSE /\ outbox' = l.box
                   /\ UNCHANGED <<assertEmpty, abortAllWaiting>>
    /\ UNCHANGED <<handles, mainRequest, nodeGeometry>>
    /\ UNCHANGED <<schedVars, parseVars, triVars, hlVars, olVars, vlVars, lbVars, iwVars, lvVars, lcVars, cmVars, bgVars>>

\* the node of m.id awaits a completion
completionWanted(m, pending) == m.kind # "aborted_all" /\ pending[m.id] # 0

\* the main thread receives the oldest message and matches it to its node by id
MainReceive ==
    /\ outbox # <<>>
    /\ LET m == Head(outbox)
           wanted == completionWanted(m, mainRequest)
       IN  /\ mainRequest' = IF wanted THEN [mainRequest EXCEPT ![m.id] = 0] ELSE mainRequest
           /\ nodeGeometry' = IF wanted /\ m.kind = "ready"
                              THEN [nodeGeometry EXCEPT ![m.id] = m.h]
                              ELSE nodeGeometry
    /\ outbox' = Tail(outbox)
    /\ UNCHANGED <<downloads, requests, handles, abortAllWaiting, assertEmpty>>
    /\ UNCHANGED <<schedVars, parseVars, triVars, hlVars, olVars, arVars, vlVars, lbVars, iwVars, lvVars, lcVars, cmVars, bgVars>>

\* the main thread disposes a loaded node
DisposeLoaded(id) ==
    /\ nodeGeometry[id] # 0
    /\ nodeGeometry' = [nodeGeometry EXCEPT ![id] = 0]
    /\ UNCHANGED <<downloads, requests, handles, outbox, abortAllWaiting, assertEmpty,
                   mainRequest>>
    /\ UNCHANGED <<schedVars, parseVars, triVars, hlVars, olVars, arVars, vlVars, lbVars, iwVars, lvVars, lcVars, cmVars, bgVars>>

(***************************************************************************)
(* Vertex layout: getVertexAttribNames and computeVertexOffsets              *)
(***************************************************************************)
\* getVertexAttribs: the attributes in declaration order
VertexAttribNames ==
    <<"position", "normal", "texCoord", "color", "projectedPos", "deviations",
      "materialIndex", "objectId">>

\* type.BYTES_PER_ELEMENT of an attribute
bytesPerElement(attrib) ==
    CASE attrib = "position" -> 2
      [] attrib = "normal" -> 1
      [] attrib = "texCoord" -> 2
      [] attrib = "color" -> 1
      [] attrib = "projectedPos" -> 2
      [] attrib = "deviations" -> 2
      [] attrib = "materialIndex" -> 1
      [] attrib = "objectId" -> 4

\* components?.length ?? 1
componentCount(attrib, deviations) ==
    CASE attrib = "position" -> 3
      [] attrib = "normal" -> 3
      [] attrib = "texCoord" -> 2
      [] attrib = "color" -> 4
      [] attrib = "projectedPos" -> 3
      [] attrib = "deviations" -> deviations
      [] attrib = "materialIndex" -> 1
      [] attrib = "objectId" -> 1

\* bits of OptionalVertexAttribute
OptionalNormal == 1
OptionalColor == 2
OptionalTexCoord == 4
OptionalProjectedPos == 8

OptionalAttributeMasks == 0..15

DeviationCounts == 0..4

getVertexAttribNames(optionalAttributes, deviations, hasMaterials, hasObjectIds) ==
    <<"position">>
    \o (IF bitAnd(optionalAttributes, OptionalNormal) # 0 THEN <<"normal">> ELSE <<>>)
    \o (IF bitAnd(optionalAttributes, OptionalTexCoord) # 0 THEN <<"texCoord">> ELSE <<>>)
    \o (IF bitAnd(optionalAttributes, OptionalColor) # 0 THEN <<"color">> ELSE <<>>)
    \o (IF bitAnd(optionalAttributes, OptionalProjectedPos) # 0 THEN <<"projectedPos">> ELSE <<>>)
    \o (IF deviations > 0 THEN <<"deviations">> ELSE <<>>)
    \o (IF hasMaterials THEN <<"materialIndex">> ELSE <<>>)
    \o (IF hasObjectIds THEN <<"objectId">> ELSE <<>>)

\* a variant that never pads
MutAlignNone(offset, alignment) == offset

\* alignOffset(alignment) applied to offset
alignOffset(offset, alignment) ==
    offset + ((alignment - 1) - ((offset + alignment - 1) % alignment))

maxOf(a, b) == IF a >= b THEN a ELSE b

RECURSIVE layoutAttribs(_, _, _, _, _, _)
\* the loop of computeVertexOffsets over names[i..]
layoutAttribs(names, deviations, i, offset, maxAlign, acc) ==
    IF i > Len(names)
    THEN [offsets |-> acc, stride |-> alignOffset(offset, maxAlign)]
    ELSE LET attrib == names[i]
             size == bytesPerElement(attrib)
             at == alignOffset(offset, size)
         IN  layoutAttribs(names, deviations, i + 1,
                           at + size * componentCount(attrib, deviations),
                           maxOf(maxAlign, size),
                           Append(acc, at))

\* computeVertexOffsets: offsets[i] is the offset of names[i]
computeVertexOffsets(names, deviations) == layoutAttribs(names, deviations, 1, 0, 1, <<>>)

\* the attribute lists getGeometry and aggregateSubMeshProjections pass
AttribLists ==
    UNION { LET all == getVertexAttribNames(o, d, m, i)
            IN  { all, Tail(all), <<Head(all)>> } :
            o \in OptionalAttributeMasks, d \in DeviationCounts, m \in BOOLEAN, i \in BOOLEAN }

\* every subset of the attributes, in declaration order
AttribSubsets ==
    { SelectSeq(VertexAttribNames, LAMBDA a : a \in S) : S \in SUBSET Range(VertexAttribNames) }

VertexLayoutIdle ==
    /\ attribs = <<>>
    /\ layoutDeviations = 0
    /\ offsets = <<>>

ComputeVertexOffsets ==
    /\ offsets = <<>>
    /\ offsets' = <<computeVertexOffsets(attribs, layoutDeviations)>>
    /\ UNCHANGED <<attribs, layoutDeviations>>
    /\ UNCHANGED <<schedVars, parseVars, triVars, hlVars, olVars, arVars, ldVars, lbVars, iwVars, lvVars, lcVars, cmVars, bgVars>>

(***************************************************************************)
(* Line buffer of one child: NodeIntersectionBuilder (outlines.ts)          *)
(***************************************************************************)
\* NodeIntersectionBuilder.maxBufferSize (0x100000 floats)
maxBufferSize == 1048576

\* draw ranges of one child in the meshes of a node
MaxDrawRanges == 3

\* lines one draw range intersects: none, a few, and about a whole buffer
LineCounts ==
    {0, 1, 2, (maxBufferSize \div 4) - 1, maxBufferSize \div 4, (maxBufferSize \div 4) + 1}

minOf(a, b) == IF a <= b THEN a ELSE b

\* output[offset++] = x for count floats from index at: a typed array drops a
\* store at an index that is not below its length
storeFloats(stored, at, count) == maxOf(stored, minOf(at + count, maxBufferSize))

\* buffer.subarray(offset).length
outputLength(at) == maxBufferSize - minOf(at, maxBufferSize)

\* a variant that takes offset elements whatever the length of the array
MutVerticesUnclamped(at) == at

\* vertices(): subarray(0, offset) and slice(0, offset) end at the end of the array
vertices(at) == minOf(at, maxBufferSize)

BuilderIdle ==
    /\ builderWasm = FALSE
    /\ builderOffset = 0
    /\ bufferStored = 0
    /\ rangesDone = 0
    /\ lineVertices = -1

\* lines 179-183: one draw range intersected by intersectTriangles, which
\* emits four floats per line from childBuilder.offset on
IntersectDrawRange(lines) ==
    /\ ~builderWasm
    /\ lineVertices = -1
    /\ rangesDone < MaxDrawRanges
    /\ bufferStored' = storeFloats(bufferStored, builderOffset, 4 * lines)
    /\ builderOffset' = builderOffset + 4 * lines
    /\ rangesDone' = rangesDone + 1
    /\ UNCHANGED <<builderWasm, lineVertices>>
    /\ UNCHANGED <<schedVars, parseVars, triVars, hlVars, olVars, arVars, ldVars, vlVars, iwVars, lvVars, lcVars, cmVars, bgVars>>

\* lines 172-178: one draw range intersected by the wasm module, which fills
\* the output view it is given with whole lines and returns their number
IntersectDrawRangeWasm(lines) ==
    /\ builderWasm
    /\ lineVertices = -1
    /\ rangesDone < MaxDrawRanges
    /\ LET written == minOf(lines, outputLength(builderOffset) \div 4)
       IN /\ bufferStored' = storeFloats(bufferStored, builderOffset, 4 * written)
          /\ builderOffset' = builderOffset + 4 * written
    /\ rangesDone' = rangesDone + 1
    /\ UNCHANGED <<builderWasm, lineVertices>>
    /\ UNCHANGED <<schedVars, parseVars, triVars, hlVars, olVars, arVars, ldVars, vlVars, iwVars, lvVars, lcVars, cmVars, bgVars>>

\* lines 192-195: the line vertices of the child are cached
CacheLineVertices ==
    /\ lineVertices = -1
    /\ lineVertices' = vertices(builderOffset)
    /\ UNCHANGED <<builderWasm, builderOffset, bufferStored, rangesDone>>
    /\ UNCHANGED <<schedVars, parseVars, triVars, hlVars, olVars, arVars, ldVars, vlVars, iwVars, lvVars, lcVars, cmVars, bgVars>>

(***************************************************************************)
(* Index element width: getGeometry, aggregateSubMeshProjections,           *)
(* getMeshBuffers                                                           *)
(***************************************************************************)
\* the vertex count from which 16 bit indices no longer do (0xffff)
IndexLimit == 65535

\* Bound: vertex counts this far around IndexLimit are tried
MaxVertexSpread == 25

VertexCounts == (IndexLimit - MaxVertexSpread)..(IndexLimit + MaxVertexSpread)

\* part_002:454: numVertices < 0xffff ? Uint16Array : Uint32Array
assembledIndexWidth(numVertices) == IF numVertices < IndexLimit THEN 2 ELSE 4

\* part_002:269: totalNumVertices < 0xffff ? 2 : 4
idxStride(totalNumVertices) == IF totalNumVertices < IndexLimit THEN 2 ELSE 4

\* outlines.ts:298-306: numVertices > 0xffff ? Uint32Array : Uint16Array
readBackIndexWidth(numVertices) == IF numVertices > IndexLimit THEN 4 ELSE 2

IndexWidthIdle ==
    /\ meshVertices = 0
    /\ writtenWidth = 0
    /\ estimatedWidth = 0
    /\ readWidth = 0

\* the parent's projection of the mesh is costed
AggregateSubMeshProjections ==
    /\ estimatedWidth = 0
    /\ estimatedWidth' = idxStride(meshVertices)
    /\ UNCHANGED <<meshVertices, writtenWidth, readWidth>>
    /\ UNCHANGED <<schedVars, parseVars, triVars, hlVars, olVars, arVars, ldVars, vlVars, lbVars, lvVars, lcVars, cmVars, bgVars>>

\* getGeometry allocates and fills the index buffer of the mesh
AssembleIndexBuffer ==
    /\ writtenWidth = 0
    /\ writtenWidth' = assembledIndexWidth(meshVertices)
    /\ UNCHANGED <<meshVertices, estimatedWidth, readWidth>>
    /\ UNCHANGED <<schedVars, parseVars, triVars, hlVars, olVars, arVars, ldVars, vlVars, lbVars, lvVars, lcVars, cmVars, bgVars>>

\* getMeshBuffers reads the uploaded index buffer back
GetMeshBuffers ==
    /\ writtenWidth # 0
    /\ readWidth = 0
    /\ readWidth' = readBackIndexWidth(meshVertices)
    /\ UNCHANGED <<meshVertices, writtenWidth, estimatedWidth>>
    /\ UNCHANGED <<schedVars, parseVars, triVars, hlVars, olVars, arVars, ldVars, vlVars, lbVars, lvVars, lcVars, cmVars, bgVars>>

(***************************************************************************)
(* Index views of createNodeLineVertices over the meshes of a parsed node   *)
(***************************************************************************)
\* outlines.ts:139: the mesh is intersected
eligibleMesh(m, vi) == m.numTriangles > 0 /\ m.primitiveType = "triangles" /\ vi

\* outlines.ts:160-170: the triangle spans [begin, end) of the index views of a
\* draw range, one per object range that lies inside the draw range
idxViews(m, drawRange) ==
    LET beginTriangle == drawRange.first \div 3
        endTriangle == beginTriangle + drawRange.count \div 3
        inside == SelectSeq(m.objectRanges,
                            LAMBDA r : ~(r.beginTriangle < beginTriangle \/ r.endTriangle > endTriangle))
    IN [i \in 1..Len(inside) |-> [begin |-> inside[i].beginTriangle, end |-> inside[i].endTriangle]]

LineViewsIdle == lineViews = <<>>

\* createNodeLineVertices on the node that parseNode decoded
CreateNodeLineVertices ==
    /\ parsed # <<>>
    /\ lineViews = <<>>
    /\ lineViews' =
          <<[g \in 1..Len(parsed[1].subMeshes) |->
               LET m == parsed[1].subMeshes[g]
               IN IF eligibleMesh(m, vertexIndex)
                  THEN [d \in 1..Len(m.drawRanges) |-> idxViews(m, m.drawRanges[d])]
                  ELSE <<>>]>>
    /\ UNCHANGED <<schedVars, parseVars, triVars, hlVars, olVars, arVars, ldVars, vlVars, lbVars, iwVars, lcVars, cmVars, bgVars>>

(***************************************************************************)
(* Storage of the cached line vertices: arena memory or the JavaScript heap  *)
(***************************************************************************)
CacheNodes == {1, 2, 3}

\* Bound: calls of createNodeLineVertices
MaxComputations == 4

\* a variant that caches a view of the builder's buffer in both cases
MutVerticesSubarray(ownedBuffer) == "view"

\* vertices(): subarray gives a view of the builder's buffer, slice a copy on the heap
verticesStorage(ownedBuffer) == IF ownedBuffer THEN "view" ELSE "copy"

\* the values read through a cache entry
cachedValues(entry) ==
    IF entry.storage = "arena" THEN arenaFloats ELSE entry.values

LinesCacheIdle ==
    /\ arenaFloats = 0
    /\ linesCache = [n \in CacheNodes |-> <<>>]
    /\ linesComputed = [n \in CacheNodes |-> 0]
    /\ computations = 0

\* createNodeLineVertices for a node without cache entry: the builder's buffer
\* is arena memory (ownedBuffer false) or a new Float32Array (ownedBuffer
\* true); the vertices are cached and the arena is reset
CreateLineClusters(n, withArena) ==
    /\ linesCache[n] = <<>>
    /\ computations < MaxComputations
    /\ computations' = computations + 1
    /\ arenaFloats' = IF withArena THEN computations + 1 ELSE arenaFloats
    /\ linesComputed' = [linesComputed EXCEPT ![n] = computations + 1]
    /\ LET ownedBuffer == ~withArena
           storage == IF verticesStorage(ownedBuffer) = "view" /\ withArena
                      THEN "arena" ELSE "heap"
       IN linesCache' = [linesCache EXCEPT
                            ![n] = <<[builder |-> IF withArena THEN "arena" ELSE "heap",
                                      storage |-> storage, values |-> computations + 1]>>]
    /\ UNCHANGED <<schedVars, parseVars, triVars, hlVars, olVars, arVars, ldVars, vlVars, lbVars, iwVars, lvVars, cmVars, bgVars>>

\* the node object is collected and its WeakMap entry goes with it
CollectNode(n) ==
    /\ linesCache[n] # <<>>
    /\ linesCache' = [linesCache EXCEPT ![n] = <<>>]
    /\ linesComputed' = [linesComputed EXCEPT ![n] = 0]
    /\ UNCHANGED <<arenaFloats, computations>>
    /\ UNCHANGED <<schedVars, parseVars, triVars, hlVars, olVars, arVars, ldVars, vlVars, lbVars, iwVars, lvVars, cmVars, bgVars>>

(***************************************************************************)
(* Frames under a camera that has come to rest (octree/index.ts update)     *)
(***************************************************************************)
CameraIdle == cameraFixed = FALSE

\* the last change of state.camera has been seen by update()
FixCamera ==
    /\ ~cameraFixed
    /\ cameraFixed' = TRUE
    /\ UNCHANGED <<schedVars, parseVars, triVars, hlVars, olVars, arVars, ldVars, vlVars, lbVars, iwVars, lvVars, lcVars, bgVars>>

\* update(state) of a frame whose scene url is the one already loaded
Frame == Update(url, DefaultView)

\* ENABLED <<Frame>>_vars written out: the pass changes something
FrameChanges == updateResult(url, DefaultView) # Bundle

(***************************************************************************)
(* BackgroundModule.downloadTextures (module/background/index.ts)           *)
(***************************************************************************)
MaxTextureCalls == 4
TextureCalls == 1..MaxTextureCalls

BackgroundIdle ==
    /\ abortController = 0
    /\ textureParams = 0
    /\ textureCalls = [c \in TextureCalls |-> "none"]
    /\ callsStarted = 0

\* lines 29-33 and the fetches of lines 37-41: abort the controller held, if
\* any, and install a new one
DownloadTextures ==
    /\ callsStarted < MaxTextureCalls
    /\ LET c == callsStarted + 1
       IN /\ callsStarted' = c
          /\ textureCalls' = [d \in TextureCalls |->
                                IF d = c THEN "fetching"
                                ELSE IF d = abortController /\ textureCalls[d] = "fetching"
                                     THEN "aborted"
                                     ELSE textureCalls[d]]
          /\ abortController' = c
    /\ UNCHANGED textureParams
    /\ UNCHANGED <<schedVars, parseVars, triVars, hlVars, olVars, arVars, ldVars, vlVars, lbVars, iwVars, lvVars, lcVars, cmVars>>

\* lines 42-48: the three fetches of call c resolve
TexturesLoaded(c) ==
    /\ textureCalls[c] = "fetching"
    /\ textureCalls' = [textureCalls EXCEPT ![c] = "loaded"]
    /\ textureParams' = c
    /\ abortController' = 0
    /\ UNCHANGED callsStarted
    /\ UNCHANGED <<schedVars, parseVars, triVars, hlVars, olVars, arVars, ldVars, vlVars, lbVars, iwVars, lvVars, lcVars, cmVars>>

\* lines 42, 46-48: a fetch of call c rejects (abort or HTTP error); finally runs
TexturesFailed(c) ==
    /\ textureCalls[c] \in {"fetching", "aborted"}
    /\ textureCalls' = [textureCalls EXCEPT ![c] = "failed"]
    /\ abortController' = 0
    /\ UNCHANGED <<textureParams, callsStarted>>
    /\ UNCHANGED <<schedVars, parseVars, triVars, hlVars, olVars, arVars, ldVars, vlVars, lbVars, iwVars, lvVars, lcVars, cmVars>>

ExtIdle == OutlinesIdle /\ ArenasIdle /\ LoaderIdle /\ VertexLayoutIdle /\ BuilderIdle /\ IndexWidthIdle /\ LineViewsIdle /\ LinesCacheIdle /\ CameraIdle /\ BackgroundIdle

(***************************************************************************)
(* Specifications                                                           *)
(***************************************************************************)
\* the scheduler over frames, scene changes and download completions
Init == SchedulerIdle /\ ParserIdle /\ IntersectorIdle /\ HighlightsIdle /\ ExtIdle

Next ==
    \/ \E u \in SceneUrls \cup {NoScene}, rv \in NodeViews : Update(u, rv)
    \/ \E n \in NodeIds, v \in NodeViews : SetView(n, v)
    \/ \E n \in NodeIds : DownloadReady(n)
    \/ \E n \in NodeIds : DownloadFailed(n)
    \/ SettleStale

Spec == Init /\ [][Next]_vars

\* parseNode applied to every buffer of the bounded input space
InitParser ==
    /\ SchedulerIdle /\ IntersectorIdle /\ HighlightsIdle /\ ExtIdle
    /\ version \in Versions
    /\ subMesh \in SubMeshInputs
    /\ vertexIndex \in BOOLEAN
    /\ enableOutlines \in BOOLEAN
    /\ parsed = <<>>

NextParser ==
    \/ ParseNode
    \/ CreateNodeLineVertices

SpecParser == InitParser /\ [][NextParser]_vars

\* intersectTriangles applied to every triangle list of the bounded input space
InitIntersector ==
    /\ SchedulerIdle /\ ParserIdle /\ HighlightsIdle /\ ExtIdle
    /\ triangles \in TriangleInputs
    /\ triIndex = 0
    /\ emitted = 0
    /\ perTriangle = <<>>
    /\ assertHolds = TRUE
    /\ returned = -1

NextIntersector == IntersectNext \/ IntersectReturn

SpecIntersector == InitIntersector /\ [][NextIntersector]_vars

\* two loader workers decoding while the main thread changes highlights
InitHighlights == SchedulerIdle /\ ParserIdle /\ IntersectorIdle /\ HighlightsIdle /\ ExtIdle

NextHighlights ==
    \/ \E d \in Decoders, f \in BOOLEAN : BeginParse(d, f)
    \/ \E d \in Decoders : GetChildren(d)
    \/ \E d \in Decoders : GetSubMeshes(d)
    \/ \E d \in Decoders : LockSync(d)
    \/ \E d \in Decoders : LookupHighlights(d)
    \/ \E d \in Decoders : GeometryThrows(d)
    \/ \E d \in Decoders : Unlock(d)
    \/ MainLock
    \/ MainWriteUnlock

SpecHighlights == InitHighlights /\ [][NextHighlights]_vars

\* an outline renderer used over disposals and reloads of two nodes
InitOutlines == SchedulerIdle /\ ParserIdle /\ IntersectorIdle /\ HighlightsIdle /\ ExtIdle

NextOutlines ==
    \/ \E n \in OutlineNodes : LoadGeometry(n)
    \/ \E n \in OutlineNodes : DisposeNode(n)
    \/ OutlineCall

SpecOutlines == InitOutlines /\ [][NextOutlines]_vars

\* decodes and frees of one LoaderHandler
InitArenas == SchedulerIdle /\ ParserIdle /\ IntersectorIdle /\ HighlightsIdle /\ ExtIdle

NextArenas ==
    \/ InitWasm
    \/ \E id \in MessageIds, corrupt \in BOOLEAN : ParseBuffer(id, corrupt)
    \/ \E id \in MessageIds : FreeArena(id)

SpecArenas == InitArenas /\ [][NextArenas]_vars

\* one LoaderHandler serving the requests of the main thread
InitLoader == SchedulerIdle /\ ParserIdle /\ IntersectorIdle /\ HighlightsIdle /\ ExtIdle

NextLoader ==
    \/ InitWasm
    \/ \E id \in MessageIds : Load(id)
    \/ \E id \in MessageIds, corrupt \in BOOLEAN : Parse(id, corrupt)
    \/ \E id \in MessageIds : Abort(id)
    \/ AbortAll
    \/ \E r \in requests, o \in Outcomes \cup {"aborted"} : Settle(r, o)
    \/ MainReceive
    \/ \E id \in MessageIds : DisposeLoaded(id)

SpecLoader == InitLoader /\ [][NextLoader]_vars

\* the scheduler on the cheap scene, where fetches of dropped scenes fill the slots
InitDrain == SchedulerIdle /\ ParserIdle /\ IntersectorIdle /\ HighlightsIdle /\ ExtIdle

NextDrain ==
    \/ \E u \in {CheapScene, NoScene}, rv \in NodeViews : Update(u, rv)
    \/ \E n \in NodeIds, v \in NodeViews : SetView(n, v)
    \/ \E n \in NodeIds : DownloadReady(n)
    \/ \E n \in NodeIds : DownloadFailed(n)
    \/ SettleStale

SpecDrain == InitDrain /\ [][NextDrain]_vars

\* parseNode applied to buffers whose rows differ in primitive type, indexing,
\* material index, texture count and stored material type
InitGeometry ==
    /\ SchedulerIdle /\ IntersectorIdle /\ HighlightsIdle /\ ExtIdle
    /\ version = CurrentVersion
    /\ subMesh \in GeometryInputs \cup MaterialInputs
    /\ vertexIndex \in BOOLEAN
    /\ enableOutlines \in BOOLEAN
    /\ parsed = <<>>

NextGeometry == ParseNode

SpecGeometry == InitGeometry /\ [][NextGeometry]_vars

\* createNodeLineVertices filling the buffer of one child, with and without wasm
InitLineBuffer ==
    /\ SchedulerIdle /\ ParserIdle /\ IntersectorIdle /\ HighlightsIdle
    /\ OutlinesIdle /\ ArenasIdle /\ LoaderIdle /\ VertexLayoutIdle /\ IndexWidthIdle /\ LineViewsIdle /\ LinesCacheIdle /\ CameraIdle /\ BackgroundIdle
    /\ builderWasm \in BOOLEAN
    /\ builderOffset = 0
    /\ bufferStored = 0
    /\ rangesDone = 0
    /\ lineVertices = -1

NextLineBuffer ==
    \/ \E lines \in LineCounts : IntersectDrawRange(lines)
    \/ \E lines \in LineCounts : IntersectDrawRangeWasm(lines)
    \/ CacheLineVertices

SpecLineBuffer == InitLineBuffer /\ [][NextLineBuffer]_vars

\* one indexed mesh of every vertex count around 0xffff: costed, assembled, read back
InitIndexWidth ==
    /\ SchedulerIdle /\ ParserIdle /\ IntersectorIdle /\ HighlightsIdle
    /\ OutlinesIdle /\ ArenasIdle /\ LoaderIdle /\ VertexLayoutIdle /\ BuilderIdle /\ LineViewsIdle /\ LinesCacheIdle /\ CameraIdle /\ BackgroundIdle
    /\ meshVertices \in VertexCounts
    /\ writtenWidth = 0
    /\ estimatedWidth = 0
    /\ readWidth = 0

NextIndexWidth ==
    \/ AggregateSubMeshProjections
    \/ AssembleIndexBuffer
    \/ GetMeshBuffers

SpecIndexWidth == InitIndexWidth /\ [][NextIndexWidth]_vars

\* line vertices of three nodes computed with and without an arena
InitLinesCache == SchedulerIdle /\ ParserIdle /\ IntersectorIdle /\ HighlightsIdle /\ ExtIdle

NextLinesCache ==
    \/ \E n \in CacheNodes, withArena \in BOOLEAN : CreateLineClusters(n, withArena)
    \/ \E n \in CacheNodes : CollectNode(n)

SpecLinesCache == InitLinesCache /\ [][NextLinesCache]_vars

\* frames, camera moves and scene changes until the camera rests, then frames
\* and download completions only
InitFixedCamera == SchedulerIdle /\ ParserIdle /\ IntersectorIdle /\ HighlightsIdle /\ ExtIdle

NextFixedCamera ==
    \/ \E u \in {CheapScene, NoScene}, rv \in NodeViews : ~cameraFixed /\ u # url /\ Update(u, rv)
    \/ \E n \in NodeIds, v \in NodeViews : ~cameraFixed /\ SetView(n, v)
    \/ FixCamera
    \/ Frame
    \/ \E n \in NodeIds : DownloadReady(n)
    \/ \E n \in NodeIds : DownloadFailed(n)
    \/ SettleStale

\* update() runs on every frame (weak fairness of Frame, with its enabling
\* condition written out), and every fetch in flight settles
SpecFixedCamera ==
    /\ InitFixedCamera
    /\ [][NextFixedCamera]_vars
    /\ ([]<>(~FrameChanges) \/ []<><<Frame>>_vars)
    /\ WF_vars(SettleStale)
    /\ \A n \in NodeIds : WF_vars(DownloadReady(n) \/ DownloadFailed(n))

\* overlapping downloadTextures calls
InitBackground == SchedulerIdle /\ ParserIdle /\ IntersectorIdle /\ HighlightsIdle /\ ExtIdle

NextBackground ==
    \/ DownloadTextures
    \/ \E c \in TextureCalls : TexturesLoaded(c)
    \/ \E c \in TextureCalls : TexturesFailed(c)

SpecBackground == InitBackground /\ [][NextBackground]_vars

\* computeVertexOffsets applied to every attribute list and deviation count
InitVertexLayout ==
    /\ SchedulerIdle /\ ParserIdle /\ IntersectorIdle /\ HighlightsIdle
    /\ OutlinesIdle /\ ArenasIdle /\ LoaderIdle /\ BuilderIdle /\ IndexWidthIdle /\ LineViewsIdle /\ LinesCacheIdle /\ CameraIdle /\ BackgroundIdle
    /\ attribs \in AttribLists \cup AttribSubsets
    /\ layoutDeviations \in DeviationCounts
    /\ offsets = <<>>

NextVertexLayout == ComputeVertexOffsets

SpecVertexLayout == InitVertexLayout /\ [][NextVertexLayout]_vars

TypeOK ==
    /\ url \in SceneUrls \cup {NoScene}
    /\ nstate \in [NodeIds -> NodeStates]
    /\ geom \in [NodeIds -> BOOLEAN]
    /\ inflight \subseteq NodeIds
    /\ activeDownloads \in 0..(DownloadCap + maxDownloads)
    /\ view \in [NodeIds -> NodeViews]
    /\ stats.gpuBytes \in Nat /\ stats.primitives \in Nat
    /\ version \in Versions
    /\ subMesh \in SubMeshInputs \cup GeometryInputs \cup MaterialInputs
    /\ triangles \in TriangleInputs
    /\ triIndex \in 0..Len(triangles)
    /\ hlVersion \in 0..MaxMutations
    /\ mutexOwner \in Decoders \cup {"free", "main"}

(***************************************************************************)
(* Properties of the scheduler                                              *)
(***************************************************************************)
RECURSIVE SumOver(_, _)
SumOver(S, f) ==
    IF S = {} THEN 0
    ELSE LET n == CHOOSE x \in S : TRUE
         IN f[n] + SumOver(S \ {n}, f)

UpdateStep == \E u \in SceneUrls \cup {NoScene}, rv \in NodeViews : Update(u, rv)

PassStep == url # NoScene /\ Update(url, DefaultView)

\* the committed cost of a node set: actual cost of the nodes holding geometry
\* plus the projected cost of the nodes in requestDownload
CommittedGpuBytes(u, st, gm) ==
    SumOver({n \in NodeIds : gm[n]}, [n \in NodeIds |-> gpuBytesOf(u, n)])
    + SumOver({n \in NodeIds : st[n] = "requestDownload"}, [n \in NodeIds |-> gpuBytesOf(u, n)])

CommittedPrimitives(u, st, gm) ==
    SumOver({n \in NodeIds : gm[n]}, [n \in NodeIds |-> renderedPrimitives(u, n)])
    + SumOver({n \in NodeIds : st[n] = "requestDownload"}, [n \in NodeIds |-> primitivesDelta(u, n)])

\* C1: after every scheduler pass the cumulative committed gpuBytes and
\* primitives (nodes holding geometry plus nodes in requestDownload) are within
\* maxGPUBytes and maxPrimitives.
C1_BudgetAfterPass ==
    [][UpdateStep =>
        /\ CommittedGpuBytes(url', nstate', geom') <= maxGPUBytes
        /\ CommittedPrimitives(url', nstate', geom') <= maxPrimitives]_vars

IsChild(u, p, c) == \E i \in 1..Len(SceneChildren(u, p)) : SceneChildren(u, p)[i] = c

\* C2: the collapse step of a pass never collapses (disposes) a node while one
\* of its children is loaded and visible.
C2_NoCollapseWhileChildRenders ==
    [][PassStep =>
        \A p \in NodeIds, c \in NodeIds :
            (nstate[p] # "collapsed" /\ nstate'[p] = "collapsed" /\ IsChild(url, p, c))
                => ~(nstate[c] = "loaded" /\ view[c].vis # "none")]_vars

PreOrderIndex(n) ==
    LET seq == iterateNodes(nstate, url, RootNode)
    IN CHOOSE i \in 1..Len(seq) : seq[i] = n

\* m is visited before n by the admission loop: larger projected size first,
\* equal sizes in traversal order
VisitedBefore(m, n) ==
    \/ view[m].size > view[n].size
    \/ view[m].size = view[n].size /\ PreOrderIndex(m) < PreOrderIndex(n)

\* a collapsed node that should split at the threshold
Candidate(n) ==
    nstate[n] = "collapsed" /\ view[n].size > 100 * projectedSizeSplitThreshold

\* the pass moved the node from collapsed to requestDownload (and maybe on to downloading)
Admitted(n) ==
    nstate[n] = "collapsed" /\ nstate'[n] \in {"requestDownload", "downloading"}

\* the node is not collapsed by the pass
StaysSplit(n) == nstate[n] # "absent" /\ view[n].size > 98 * projectedSizeSplitThreshold

GpuBytesCost == [n \in NodeIds |-> gpuBytesOf(url, n)]
DeltaCost == [n \in NodeIds |-> primitivesDelta(url, n)]
RenderedCost == [n \in NodeIds |-> renderedPrimitives(url, n)]

\* totals before the first admission of the pass
BaseGpuBytes ==
    SumOver({n \in NodeIds : StaysSplit(n) /\ geom[n]}, GpuBytesCost)
    + SumOver({n \in NodeIds : StaysSplit(n) /\ nstate[n] = "requestDownload"}, GpuBytesCost)

BasePrimitives ==
    SumOver({n \in NodeIds : StaysSplit(n) /\ geom[n]}, RenderedCost)
    + SumOver({n \in NodeIds : StaysSplit(n) /\ nstate[n] = "requestDownload"}, DeltaCost)

C3_UnsupportedVersionRejected ==
    \A i \in 1..Len(parsed) :
        ~isSupportedVersion(version) =>
            /\ parsed[i].error = "UnsupportedVersionError"
            /\ parsed[i].schema = "none"
            /\ parsed[i].subMeshes = <<>>

\* C4: in every SubMesh the objectRanges are strictly ascending by objectId,
\* so no two ranges carry the same objectId.
C4_ObjectRangesStrictlyAscending ==
    \A i \in 1..Len(parsed) :
        \A g \in 1..Len(parsed[i].subMeshes) :
            LET r == parsed[i].subMeshes[g].objectRanges
            IN \A j \in 1..(Len(r) - 1) : r[j].objectId < r[j + 1].objectId

RECURSIVE SumVertexSpans(_, _)
SumVertexSpans(r, i) ==
    IF i = 0 THEN 0 ELSE SumVertexSpans(r, i - 1) + (r[i].endVertex - r[i].beginVertex)

RECURSIVE SumTriangleSpans(_, _)
SumTriangleSpans(r, i) ==
    IF i = 0 THEN 0 ELSE SumTriangleSpans(r, i - 1) + (r[i].endTriangle - r[i].beginTriangle)

\* C5: in every SubMesh, with outlines enabled or disabled, numVertices is the
\* sum of the vertex spans of its objectRanges and numTriangles the sum of
\* their triangle spans.
C5_CountsMatchObjectRanges ==
    \A i \in 1..Len(parsed) :
        \A g \in 1..Len(parsed[i].subMeshes) :
            LET m == parsed[i].subMeshes[g]
            IN /\ m.numVertices = SumVertexSpans(m.objectRanges, Len(m.objectRanges))
               /\ m.numTriangles = SumTriangleSpans(m.objectRanges, Len(m.objectRanges))

\* an indexed row of triangles of an object with a material
triangleRow(objectId, childIndex, numTris) ==
    [objectId |-> objectId, childIndex |-> childIndex, numTris |-> numTris,
     indexed |-> TRUE, primitiveType |-> "triangles", materialIndex |-> 0,
     textures |-> 0, materialType |-> "opaque", attributes |-> 0, deviations |-> 0]

TwoObjectsNode == <<triangleRow(5, 0, 2), triangleRow(7, 0, 1)>>

\* C9: two triangles of object 5 followed by one triangle of object 7, outlines
\* disabled, give one SubMesh with objectRanges [{5, triangles 0-2}, {7,
\* triangles 2-3}] and no triangle position buffer.
C9_TwoObjectsScenario ==
    \A i \in 1..Len(parsed) :
        (subMesh = TwoObjectsNode /\ ~enableOutlines) =>
            /\ Len(parsed[i].subMeshes) = 1
            /\ ~parsed[i].subMeshes[1].hasTrianglePosBuffer
            /\ LET r == parsed[i].subMeshes[1].objectRanges
               IN /\ Len(r) = 2
                  /\ r[1].objectId = 5 /\ r[1].beginTriangle = 0 /\ r[1].endTriangle = 2
                  /\ r[2].objectId = 7 /\ r[2].beginTriangle = 2 /\ r[2].endTriangle = 3

(***************************************************************************)
(* Properties of the triangle intersector                                   *)
(***************************************************************************)
\* the triangle has a vertex above and a vertex below the plane
Straddles(t) == (\E a \in 1..3 : t[a] > 0) /\ (\E b \in 1..3 : t[b] < 0)

\* C6: intersectTriangles emits exactly 2 points for every triangle with a
\* vertex above and a vertex below the plane and none for any other triangle
\* (vertices on the plane included), so the point count is even after every
\* triangle and the assertion n % 2 == 0 always holds.
C6_TwoPointsPerStraddlingTriangle ==
    /\ \A i \in 1..Len(perTriangle) :
          perTriangle[i] = IF Straddles(triangles[i]) THEN 2 ELSE 0
    /\ emitted % 2 = 0
    /\ assertHolds
    /\ returned # -1 => 2 * returned = emitted

\* a straddling triangle with a vertex on the plane and a triangle that only
\* touches the plane have both been processed
C6_StraddlingAndTouchingDone ==
    /\ triangles = <<<<0, 1, -1>>, <<0, 0, 1>>>>
    /\ perTriangle = <<2, 0>>
    /\ returned = 1

(***************************************************************************)
(* Properties of the highlight table                                        *)
(***************************************************************************)
\* C7: all reads of the highlight table made by one parseNode (the predicate
\* in getChildren and getSubMeshes, the lookups in getGeometry) see the same
\* table version.
C7_ConsistentSnapshot ==
    \A d \in Decoders : Cardinality(decSeen[d]) <= 1

(***************************************************************************)
(* Properties of the node lifecycle                                         *)
(***************************************************************************)
\* the node states after the collapse loop and after the admission loop of a pass
AfterCollapse == collapseNodes(Bundle, iterateNodes(nstate, url, RootNode), 1)

SortedNodes ==
    sortByProjectedSize(AfterCollapse.vw, iterateNodes(AfterCollapse.st, url, RootNode))

AfterAdmission ==
    admitNodes(AfterCollapse,
               sumBudget(AfterCollapse, SortedNodes, 1, [gpuBytes |-> 0, primitives |-> 0]),
               SortedNodes, 1).ns

LifecycleEdges ==
    { <<"unloaded", "requestDownload">>, <<"requestDownload", "downloading">>,
      <<"downloading", "loaded">>, <<"loaded", "collapsed">>,
      <<"collapsed", "unloaded">>, <<"downloading", "unloaded">> }

LegalChange(from, to) == from = to \/ from = "absent" \/ <<from, to>> \in LifecycleEdges

\* C12: every change of a node's state follows one of the edges
\* unloaded->requestDownload, requestDownload->downloading, downloading->loaded,
\* loaded->collapsed, collapsed->unloaded, downloading->unloaded: in a pass each
\* of the collapse, admission and drain loops changes a node along such an edge,
\* and so does every loader event.
C12_OnlyLifecycleEdges ==
    [][/\ PassStep =>
            \A n \in NodeIds :
                /\ LegalChange(nstate[n], AfterCollapse.st[n])
                /\ LegalChange(AfterCollapse.st[n], AfterAdmission.st[n])
                /\ LegalChange(AfterAdmission.st[n], nstate'[n])
       /\ (\E m \in NodeIds : DownloadReady(m) \/ DownloadFailed(m)) =>
            \A n \in NodeIds : LegalChange(nstate[n], nstate'[n])]_vars

\* C19: a node holds geometry only while its state is loaded, so no node is
\* counted both as holding geometry and as a pending requestDownload.
C19_GeometryOnlyWhileLoaded ==
    \A n \in NodeIds : geom[n] => nstate[n] = "loaded"

\* a loaded node with geometry next to a node waiting in requestDownload
C19_LoadedBesidePending ==
    /\ \E n \in NodeIds : geom[n] /\ nstate[n] = "loaded"
    /\ \E n \in NodeIds : nstate[n] = "requestDownload" /\ ~geom[n]
    /\ \E n \in NodeIds : nstate[n] = "collapsed" /\ ~geom[n]

\* projected size inside the hysteresis band
InBand(n) ==
    /\ nstate[n] # "absent"
    /\ shouldSplit(view, n, projectedSizeSplitThreshold * 98)
    /\ ~shouldSplit(view, n, projectedSizeSplitThreshold * 100)

\* C20 as stated: a pass leaves the state of a node inside the hysteresis band
\* unchanged.
C20_BandStateUnchanged ==
    [][PassStep => \A n \in NodeIds : InBand(n) => nstate'[n] = nstate[n]]_vars

\* C20: a pass neither collapses nor admits a node inside the hysteresis band;
\* its state and geometry are unchanged, except that a node already in
\* requestDownload may be started by the drain loop.
C20_BandNeitherCollapsedNorAdmitted ==
    [][PassStep =>
        \A n \in NodeIds :
            InBand(n) =>
                /\ geom'[n] = geom[n]
                /\ \/ nstate'[n] = nstate[n]
                   \/ nstate[n] = "requestDownload" /\ nstate'[n] = "downloading"]_vars

\* a pass has counted a loaded node whose projected size is inside the band
C20_LoadedNodeInBand ==
    /\ url = 1
    /\ nstate[1] = "loaded" /\ nstate[2] = "loaded" /\ geom[2]
    /\ view[2].size = 99
    /\ view[3].size = 50 /\ nstate[3] = "collapsed"
    /\ stats.gpuBytes = gpuBytesOf(url, 1) + gpuBytesOf(url, 2)
(***************************************************************************)
(* Outline cache and child mask                                             *)
(***************************************************************************)
\* the steps of SpecOutlines that leave the nodes alone are the calls of
\* intersectTriangles
CallStep == nodeLoads' = nodeLoads /\ nodeHasGeometry' = nodeHasGeometry

BitSet(mask, c) == (mask \div (2 ^ c)) % 2 = 1

\* C18: the buffer of child index c of a render node is yielded exactly when
\* the node intersects the plane and bit c of the render node's mask is set;
\* nothing is yielded for nodes outside the list
C18_YieldIffIntersectsAndBitSet ==
    /\ \A i \in 1..Len(renderNodes) : \A c \in drawRangeChildren(renderNodes[i].node) :
          (\E y \in yielded : y[1] = renderNodes[i].node /\ y[2] = c)
            <=> (renderNodes[i].intersectsPlane /\ BitSet(renderNodes[i].mask, c))
    /\ \A y \in yielded :
          \E i \in 1..Len(renderNodes) :
              renderNodes[i].node = y[1] /\ y[2] \in drawRangeChildren(y[1])

\* C18 witness: one node yielded child 0 but not child 1 (bit clear), and a
\* node outside the plane with a full mask yielded nothing
C18_OneChildSelectedOtherNodeMissed ==
    /\ Len(renderNodes) = 2
    /\ renderNodes[1] = [node |-> 1, mask |-> 1, intersectsPlane |-> TRUE]
    /\ renderNodes[2] = [node |-> 2, mask |-> 3, intersectsPlane |-> FALSE]
    /\ yielded = {<<1, 0, nodeLoads[1]>>}

(***************************************************************************)
(* Arena pool                                                               *)
(***************************************************************************)
\* C17: every arena ever borrowed is either held for a node whose decode is
\* not freed yet, or back in the free pool and reset
C17_ArenasReturnedReset ==
    \A a \in 1..arenaCount :
        \/ \E id \in MessageIds : arenasInUse[id] = a
        \/ a \in Range(freeArenas) /\ a \notin arenaData

(***************************************************************************)
(* Loader messages                                                          *)
(***************************************************************************)
\* C11: when abort_all is handled every download still in flight is aborted
C11_AbortAllAbortsEveryDownload ==
    [][AbortAll => \A r \in requests' : r.aborted]_vars

\* messages a step appended to the outbox
Appended == SubSeq(outbox', Len(outbox) + 1, Len(outbox'))

\* the load of download r fails: the transport fails, or parseNode throws
LoadFails(r) == Settle(r, "failed") \/ (wasm /\ Settle(r, "corrupt"))

\* what the handler must do when the request h of node id fails
FailureReported(id, h) ==
    /\ \/ Appended = <<[kind |-> "error", id |-> id, h |-> h]>>
       \/ Appended = <<[kind |-> "error", id |-> id, h |-> h],
                       [kind |-> "aborted_all", id |-> 0, h |-> 0]>>
    /\ \A j \in MessageIds \ {id} : downloads'[j] = downloads[j]
    /\ \A r \in requests : r.h # h => r \in requests'

C14_AbortedLoadSendsNoReadyNoError ==
    [][\A r \in requests \ requests' : r.abortAsked =>
          \A i \in 1..Len(Appended) : Appended[i].h = r.h => Appended[i].kind = "aborted"]_vars

\* C15: a ready or error message that answers a request the main thread no
\* longer awaits changes neither the request nor the geometry of its node
C15_StaleCompletionDiscarded ==
    [][MainReceive =>
          LET m == Head(outbox)
          IN  (m.kind \in {"ready", "error"} /\ m.h # mainRequest[m.id])
                => (mainRequest' = mainRequest /\ nodeGeometry' = nodeGeometry)]_vars

(***************************************************************************)
(* Admission and drain                                                      *)
(***************************************************************************)
\* C21: after the collapse step of a pass, admission and drain leave every
\* node that holds geometry in its state and with its geometry, and no node
\* loses geometry in them
C21_AdmissionNeverEvicts ==
    [][PassStep =>
          LET c == AfterCollapse
          IN  \A n \in NodeIds :
                  /\ geom'[n] = c.geom[n]
                  /\ c.geom[n] => nstate'[n] = c.st[n]]_vars

\* C21 witness: a pass refused node 3 for the gpu budget although the loaded
\* node 2 is smaller on screen; node 2 kept its geometry
C21_LoadedKeptWhileLargerRefused ==
    /\ url = 1
    /\ nstate[2] = "loaded" /\ geom[2] /\ view[2].size = 99
    /\ nstate[3] = "collapsed" /\ view[3].size = 150
    /\ geom[1]
    /\ stats.gpuBytes = gpuBytesOf(url, 1) + gpuBytesOf(url, 2)
    /\ stats.gpuBytes + gpuBytesOf(url, 3) > maxGPUBytes

\* C22: a node whose download a pass starts is at least as large on screen as
\* every node the pass leaves waiting in RequestDownload
C22_SlotsInDescendingSize ==
    [][\A s, w \in NodeIds :
          (nstate[s] # "downloading" /\ nstate'[s] = "downloading"
             /\ nstate'[w] = "requestDownload")
            => view'[s].size >= view'[w].size]_vars

\* C22 witness: the last slot went to node 3 (projected size 2.0); node 2
\* (1.5), first in traversal order, waits
C22_LargerStartedSmallerWaits ==
    /\ url = CheapScene
    /\ activeDownloads = maxDownloads
    /\ inflight = {3}
    /\ nstate[3] = "downloading" /\ view[3].size = 200
    /\ nstate[2] = "requestDownload" /\ view[2].size = 150

(***************************************************************************)
(* primitivesDelta                                                          *)
(***************************************************************************)
\* C29: the primitivesDelta of every child is its projected primitive count
\* minus the primitive count of its parent in the octant of that child
C29_DeltaRelativeToParent ==
    \A n \in NodeIds \ {RootNode} :
        nstate[n] # "absent" =>
            primitivesDelta(url, n) = ScenePrimitives(url, n) - SceneParentPartition(url, n)

\* running totals of the budget loop and of the admission loop after k nodes
BudgetPrefix(c, nodes, k) ==
    sumBudget(c, SubSeq(nodes, 1, k), 1, [gpuBytes |-> 0, primitives |-> 0])

AdmitPrefix(c, nodes, committed, k) ==
    admitNodes(c, committed, SubSeq(nodes, 1, k), 1).acc

C28_DownloadDecodeReadyInOrder ==
    [][\A r \in requests \ requests' :
          LET readies == { i \in 1..Len(Appended) : Appended[i].kind = "ready" }
          IN  /\ readies # {} =>
                    /\ ~r.aborted
                    /\ decodes' = decodes + 1
                    /\ arenasInUse'[r.id] # 0
                    /\ \A i \in readies : Appended[i].id = r.id /\ Appended[i].h = r.h
              /\ r.aborted => (readies = {} /\ decodes' = decodes)]_vars

\* C28 witness: the download of node 1 resolved without a buffer and was
\* answered with aborted; the download of node 2 resolved, was decoded and
\* answered with ready
C28_AbortedThenDecodedReady ==
    /\ outbox = <<[kind |-> "aborted", id |-> 1, h |-> 1], [kind |-> "ready", id |-> 2, h |-> 2]>>
    /\ arenasInUse[2] # 0
    /\ arenasInUse[1] = 0
    /\ decodes = 1


\* end of the i-th attribute of the list computeVertexOffsets laid out
attribEnd(i) ==
    IF i = 0 THEN 0
    ELSE offsets[1].offsets[i]
         + bytesPerElement(attribs[i]) * componentCount(attribs[i], layoutDeviations)

\* the largest element size among the attributes laid out
largestElement ==
    IF attribs = <<>> THEN 1
    ELSE CHOOSE m \in { bytesPerElement(a) : a \in Range(attribs) } :
             \A a \in Range(attribs) : bytesPerElement(a) <= m

\* C23: for every attribute list in declaration order and every deviation
\* count 0..4, computeVertexOffsets places each attribute at a multiple of its
\* element size, directly after the previous attribute with only the padding
\* that alignment needs, and the stride is a multiple of the largest element
\* size among the attributes and not less than the end of the last attribute.
C23_OffsetsAlignedPackedStride ==
    offsets # <<>> =>
        /\ Len(offsets[1].offsets) = Len(attribs)
        /\ \A i \in 1..Len(attribs) :
              /\ offsets[1].offsets[i] % bytesPerElement(attribs[i]) = 0
              /\ offsets[1].offsets[i] >= attribEnd(i - 1)
              /\ offsets[1].offsets[i] - attribEnd(i - 1) < bytesPerElement(attribs[i])
        /\ offsets[1].stride % largestElement = 0
        /\ offsets[1].stride >= attribEnd(Len(attribs))
        /\ offsets[1].stride - attribEnd(Len(attribs)) < largestElement

\* C23 witness: position, normal and objectId are laid out with padding
\* before objectId: offsets 0, 6 and 12, stride 16.
C23_PaddedBeforeObjectId ==
    /\ attribs = <<"position", "normal", "objectId">>
    /\ offsets = <<[offsets |-> <<0, 6, 12>>, stride |-> 16]>>


(***************************************************************************)
(* Properties of getSubMeshes and getGeometry                               *)
(***************************************************************************)
\* the row has no material, no texture and is made of triangles or a strip
ElevationShaped(sm) ==
    /\ sm.materialIndex = NoMaterial
    /\ sm.textures = 0
    /\ sm.primitiveType \in {"triangles", "triangle_strip"}

\* the SubMesh m holds the row sm
Holds(m, sm) ==
    /\ m.primitiveType = sm.primitiveType
    /\ m.attributes = sm.attributes /\ m.deviations = sm.deviations
    /\ \E d \in 1..Len(m.drawRanges) : m.drawRanges[d].childIndex = sm.childIndex

\* C24 as stated: getSubMeshes classifies a submesh as elevation iff its
\* materialIndex is 0xff, its texture count is 0 and its primitive type is
\* triangles or triangle_strip, whatever material type is stored; every other
\* submesh keeps its stored material type.
C24_ElevationIffShaped ==
    \A p \in 1..Len(parsed) :
        \A i \in 1..Len(subMesh) :
            \E g \in 1..Len(parsed[p].subMeshes) :
                LET m == parsed[p].subMeshes[g]
                IN /\ Holds(m, subMesh[i])
                   /\ m.materialType = "elevation" <=> ElevationShaped(subMesh[i])
                   /\ ~ElevationShaped(subMesh[i]) => m.materialType = subMesh[i].materialType

\* C24 amended: a submesh whose materialIndex is 0xff, whose texture count is
\* 0 and whose primitive type is triangles or triangle_strip is yielded as
\* elevation whatever material type is stored; every other submesh keeps its
\* stored material type, elevation included.
C24_ElevationOverrideElseStored ==
    \A p \in 1..Len(parsed) :
        /\ \A i \in 1..Len(subMesh) :
              \E g \in 1..Len(parsed[p].subMeshes) :
                  LET m == parsed[p].subMeshes[g]
                  IN /\ Holds(m, subMesh[i])
                     /\ m.materialType = IF ElevationShaped(subMesh[i]) THEN "elevation"
                                         ELSE subMesh[i].materialType
        /\ \A g \in 1..Len(parsed[p].subMeshes) :
              \E i \in 1..Len(subMesh) :
                  LET m == parsed[p].subMeshes[g]
                  IN /\ Holds(m, subMesh[i])
                     /\ m.materialType = IF ElevationShaped(subMesh[i]) THEN "elevation"
                                         ELSE subMesh[i].materialType

\* C24 witness: a transparent strip without material and texture has become
\* elevation, and lines without material and texture have stayed transparent.
C24_StripOverriddenLinesKept ==
    /\ Len(subMesh) = 2
    /\ subMesh[1].primitiveType = "triangle_strip" /\ subMesh[2].primitiveType = "lines"
    /\ \A i \in 1..2 :
          /\ subMesh[i].materialIndex = NoMaterial
          /\ subMesh[i].textures = 0
          /\ subMesh[i].materialType = "transparent"
    /\ Len(parsed) = 1
    /\ Len(parsed[1].subMeshes) = 2
    /\ parsed[1].subMeshes[1].materialType = "elevation"
    /\ parsed[1].subMeshes[2].materialType = "transparent"

\* the part of the group key that the claim lets a SubMesh vary in
meshKey(sm) == <<sm.materialType, sm.primitiveType, sm.attributes, sm.deviations>>

RECURSIVE SumCounts(_, _)
SumCounts(r, i) == IF i = 0 THEN 0 ELSE SumCounts(r, i - 1) + r[i].count

\* C25: records that share material type, primitive type, attribute bitmask
\* and deviation count and differ only in child index are merged into one
\* SubMesh whose drawRanges has one entry per child octant present, ordered
\* by child index; the draw ranges are contiguous, do not overlap, and their
\* counts sum to the index count of the mesh (its vertex count when unindexed).
C25_OneSubMeshManyDrawRanges ==
    \A p \in 1..Len(parsed) :
        LET rows == getSubMeshes(subMesh, {})
            ms == parsed[p].subMeshes
        IN /\ Len(ms) = Cardinality({meshKey(rows[i]) : i \in 1..Len(rows)})
           /\ \A g \in 1..Len(ms) :
                 LET r == ms[g].drawRanges
                     present == {rows[i].childIndex :
                                    i \in {j \in 1..Len(rows) : meshKey(rows[j]) = meshKey(ms[g])}}
                 IN /\ Len(r) = Cardinality(present)
                    /\ {r[d].childIndex : d \in 1..Len(r)} = present
                    /\ \A d \in 1..(Len(r) - 1) : r[d].childIndex < r[d + 1].childIndex
                    /\ Len(r) > 0 => r[1].first = 0
                    /\ \A d \in 1..(Len(r) - 1) : r[d + 1].first = r[d].first + r[d].count
                    /\ SumCounts(r, Len(r)) = IF vertexIndex THEN ms[g].numIndices
                                              ELSE ms[g].numVertices

\* C26: the per-triangle position, object-id and highlight buffers exist iff
\* outlines are enabled and the primitive type of the group is triangles; when
\* they exist each holds numTriangles entries and the final triangleOffset is
\* numTriangles, so the assertion triangleOffset == triangleObjectIdBuffer.length
\* (0 without the buffer) holds.
C26_TriangleBuffersExact ==
    \A p \in 1..Len(parsed) :
        \A g \in 1..Len(parsed[p].subMeshes) :
            LET m == parsed[p].subMeshes[g]
            IN /\ m.hasTrianglePosBuffer <=> (enableOutlines /\ m.primitiveType = "triangles")
               /\ m.hasTrianglePosBuffer => m.triangleBufferLength = m.numTriangles
               /\ m.triangleOffset = m.triangleBufferLength


\* C27: when the intersections of one child exceed maxBufferSize floats the
\* result is truncated: the cached line vertices of the child never have more
\* than maxBufferSize elements, their length is a multiple of 4 (whole
\* segments), every cached element was written, and no write lands outside
\* the output buffer.
C27_LineBufferTruncated ==
    /\ bufferStored <= maxBufferSize
    /\ lineVertices # -1 =>
          /\ lineVertices <= maxBufferSize
          /\ lineVertices % 4 = 0
          /\ lineVertices = bufferStored

\* C27 witness: the draw ranges of the child intersected more lines than the
\* buffer holds and the cached line vertices are a full buffer.
C27_OverflowCachedAsFullBuffer ==
    /\ ~builderWasm
    /\ builderOffset > maxBufferSize
    /\ lineVertices = maxBufferSize


(***************************************************************************)
(* Properties of the loader worker and the outline buffers, continued       *)
(***************************************************************************)
\* C31: the highlight mutex is not held when getGeometry has ended, whether it
\* returned or threw: a decoder that is not between lockSync and unlock does
\* not own the mutex, so a later decode can acquire it.
C31_MutexReleasedWhenGetGeometryEnds ==
    \A d \in Decoders : decPc[d] \notin {"lookup", "unlock"} => mutexOwner # d


\* the fetches for id that have not settled and were not aborted
liveFetches(id) == { r \in requests : r.id = id /\ ~r.aborted }

\* C32: the downloads map holds an entry for id exactly when a fetch for id
\* is in flight, and the entry is the most recently started one, also when
\* the node was aborted and requested again before the first load resumed:
\* an entry names a fetch that has not settled, and a fetch that is neither
\* settled nor aborted is found under its id (the newest one if there are
\* several), so abort(id) and abort_all can reach it.
C32_DownloadsHoldNewestFetch ==
    \A id \in MessageIds :
        /\ downloads[id] # 0 => \E r \in requests : r.h = downloads[id] /\ r.id = id
        /\ liveFetches(id) # {} =>
              /\ downloads[id] # 0
              /\ \A r \in liveFetches(id) : r.h <= downloads[id]


\* number of terminal messages for request h that the step appends to the outbox
answersSent(h) ==
    Cardinality({ i \in (Len(outbox) + 1)..Len(outbox') :
                    outbox'[i].h = h /\ outbox'[i].kind \in {"ready", "aborted", "error"} })

\* C33: every load or parse request is answered by exactly one terminal
\* message for its id (ready, aborted or error), in any message order and
\* also before the wasm instance is there: the step that handles a parse
\* message, and the step in which the download of a load message settles and
\* load runs to its end, send exactly one such message for the request.
C33_ExactlyOneTerminalMessage ==
    [][/\ (handles' = handles + 1 /\ requests' = requests) => answersSent(handles') = 1
       /\ \A r \in requests : (\A q \in requests' : q.h # r.h) => answersSent(r.h) = 1]_vars


\* the ids under which arena a is in use
arenaUsers(a) == { id \in MessageIds : arenasInUse[id] = a }

\* the positions of arena a in freeArenas
arenaFreeSlots(a) == { i \in 1..Len(freeArenas) : freeArenas[i] = a }

\* C34: every arena is either in freeArenas or in arenasInUse under exactly
\* one node id, never both and never under two ids, and none is dropped from
\* both collections (not when parseNode throws, not when a second decode for
\* the same id overwrites the entry), so the pool never holds fewer than the
\* initial 10 arenas.
C34_ArenasNeverLost ==
    /\ \A a \in 1..arenaCount :
          Cardinality(arenaUsers(a)) + Cardinality(arenaFreeSlots(a)) = 1
    /\ wasm => Len(freeArenas) + Cardinality({id \in MessageIds : arenasInUse[id] # 0})
                  >= ArenaPoolSize


\* C35: for every vertex count, exactly 0xffff included, the index width
\* getMeshBuffers reads the index buffer of a mesh with equals the width
\* getGeometry wrote it with and the width aggregateSubMeshProjections costs.
C35_IndexWidthsAgree ==
    /\ (readWidth # 0 /\ writtenWidth # 0) => readWidth = writtenWidth
    /\ (estimatedWidth # 0 /\ writtenWidth # 0) => estimatedWidth = writtenWidth
    /\ (readWidth # 0 /\ estimatedWidth # 0) => readWidth = estimatedWidth


\* number of index views of a draw range that hold triangle t
timesCovered(views, t) ==
    Cardinality({ i \in 1..Len(views) : views[i].begin <= t /\ t < views[i].end })

\* C36: for every draw range of an eligible mesh the index views handed to
\* the intersector cover each triangle of the draw range exactly once and no
\* triangle outside it, for every objectRanges list the assembler produces
\* (outlines enabled or not when the node was decoded).
C36_ViewsCoverDrawRangeOnce ==
    \A c \in 1..Len(lineViews) :
        \A g \in 1..Len(lineViews[c]) :
            LET m == parsed[1].subMeshes[g]
            IN \A d \in 1..Len(lineViews[c][g]) :
                  LET first == m.drawRanges[d].first \div 3
                      last == first + m.drawRanges[d].count \div 3
                  IN \A t \in 0..(m.numTriangles + MaxSubMeshes) :
                        timesCovered(lineViews[c][g][d], t)
                           = IF first <= t /\ t < last THEN 1 ELSE 0


\* C37: line vertices stored in nodeLinesCache never alias arena memory: after
\* the arena was reset and used again for another node, the cache entry of
\* every node still holds the values computed for that node.
C37_CacheKeepsOwnValues ==
    \A n \in CacheNodes :
        linesCache[n] # <<>> =>
            /\ linesCache[n][1].storage # "arena"
            /\ cachedValues(linesCache[n][1]) = linesComputed[n]

\* C37 witness: node 1 was cut with the arena, the arena was then used again
\* for node 2, and both entries are cached.
C37_ArenaReusedForSecondNode ==
    /\ linesCache[1] # <<>> /\ linesCache[2] # <<>>
    /\ linesCache[1][1].builder = "arena" /\ linesCache[2][1].builder = "arena"
    /\ linesComputed[1] = 1 /\ linesComputed[2] = 2
    /\ arenaFloats = 2


\* C38: over any sequence of frames and download completions the gpuBytes and
\* the primitives of the nodes holding geometry stay within maxGPUBytes and
\* maxPrimitives (a node whose download is in flight keeps counting toward
\* the budget of later passes).
C38_LoadedGeometryWithinBudget ==
    /\ SumOver({n \in NodeIds : geom[n]}, [n \in NodeIds |-> gpuBytesOf(url, n)]) <= maxGPUBytes
    /\ SumOver({n \in NodeIds : geom[n]}, [n \in NodeIds |-> renderedPrimitives(url, n)])
          <= maxPrimitives


C40_OnlyNewestCallLive ==
    [][/\ Cardinality({c \in TextureCalls : textureCalls'[c] = "fetching"}) <= 1
       /\ textureParams' # textureParams => textureParams' = callsStarted'
       /\ \A c \in TextureCalls :
            (textureCalls[c] # textureCalls'[c] /\ textureCalls'[c] \in {"loaded", "failed"}
             /\ abortController # c) => abortController' = abortController]_vars

====
